---------------------------- MODULE Spec2Model ----------------------------
(***************************************************************************)
(* ClosetMate frontend: the wardrobe page's upload/edit workflow           *)
(* (pages/Wardrobe/Wardrobe.jsx), the item detail editor                   *)
(* (components/ClothingDetail/ClothingDetail.jsx), the business-logic hook *)
(* (hooks/useWardrobeHandlers.js) and the zustand item store               *)
(* (store/wardrobeStore.js), with the remote service as an environment     *)
(* that answers every call with success or failure.                        *)
(*                                                                         *)
(* JavaScript strings are sequences of one-character strings, so that      *)
(* String.prototype.trim and the "Untitled" sentinel act on real text.     *)
(* File objects and image URLs are positive integers; 0 is null/undefined. *)
(***************************************************************************)
EXTENDS Integers, Sequences, FiniteSets, TLC

(***************************************************************************)
(* Bounds of the model.                                                    *)
(***************************************************************************)
\* File objects the user can pick in one run (each pick is a fresh object).
MaxFiles == 2
\* Remote calls the user starts in one run (process, create, update, delete);
\* the list calls a handler chains after its mutation are not counted.
MaxCalls == 4
\* Store operations a direct caller of the store may have in flight at once.
MaxInFlight == 2
\* Object URLs the dropzone may create in one run.
MaxUrls == 4

(***************************************************************************)
(* Strings.                                                                *)
(***************************************************************************)
Untitled == <<"U", "n", "t", "i", "t", "l", "e", "d">>
Spring == <<"S", "p", "r", "i", "n", "g">>
Summer == <<"S", "u", "m", "m", "e", "r">>
Fall == <<"F", "a", "l", "l">>
Winter == <<"W", "i", "n", "t", "e", "r">>
Empty == << >>

\* constants/index.js
WEATHER_TYPES == {Spring, Summer, Fall, Winter}
DEFAULT_ITEM_NAME == Untitled
DEFAULT_WEATHER == Untitled

Whitespace == {" "}

RECURSIVE TrimStart(_)
TrimStart(s) ==
  IF s = Empty THEN Empty
  ELSE IF Head(s) \in Whitespace THEN TrimStart(Tail(s)) ELSE s

RECURSIVE TrimEnd(_)
TrimEnd(s) ==
  IF s = Empty THEN Empty
  ELSE IF s[Len(s)] \in Whitespace THEN TrimEnd(SubSeq(s, 1, Len(s) - 1)) ELSE s

\* String.prototype.trim
Trim(s) == TrimEnd(TrimStart(s))

\* JavaScript a || b on strings: the empty string is falsy.
OrElse(a, b) == IF a = Empty THEN b ELSE a

Pad(s) == <<" ">> \o s
PadEnd(s) == s \o <<" ">>

Ab == <<"A", "b">>
Cd == <<"C", "d">>

(***************************************************************************)
(* ClothingDetail: change detection.                                       *)
(***************************************************************************)
\* ClothingDetail.normalizeValue: "Untitled" and empty/absent become ''.
normalizeValue(value) ==
  IF value = DEFAULT_ITEM_NAME \/ value = DEFAULT_WEATHER \/ value = Empty
  THEN Empty
  ELSE value

nameChangedDetail(item, editState) ==
  Trim(normalizeValue(editState.name)) # Trim(normalizeValue(item.name))

weatherChangedDetail(item, editState) ==
  Trim(normalizeValue(editState.weather)) # Trim(normalizeValue(item.weather))

\* ClothingDetail.hasChanges (useMemo): item is the item prop, editState
\* the local form state; image is the pending File (0 = null).
hasChanges(isEditing, item, editState) ==
  IF ~isEditing THEN FALSE
  ELSE \/ nameChangedDetail(item, editState)
       \/ weatherChangedDetail(item, editState)
       \/ editState.image # 0

\* utils.validateItemName: the character class of the pattern
\* /^[a-zA-Z0-9\s\-',.()]+$/ restricted to the characters the model uses.
ValidNameChars ==
  {"U", "n", "t", "i", "l", "e", "d", "A", "b", "C", "x", " ", "-", "'", ",", ".", "(", ")"}

validateItemName(name) ==
  /\ name # Empty
  /\ Len(Trim(name)) > 0
  /\ Len(Trim(name)) >= 2
  /\ Len(Trim(name)) <= 50
  /\ \A i \in 1..Len(name) : name[i] \in ValidNameChars


(***************************************************************************)
(* State.                                                                  *)
(***************************************************************************)
VARIABLES
  store,      \* wardrobeStore: items, loading, error, openModal, currentItemId
  w,          \* Wardrobe component state (useState hooks) and its toast
  detail,     \* the mounted ClothingDetail instance, if any
  wConfirm,   \* the Wardrobe page's confirmation dialog (useModal)
  tasks,      \* remote calls in flight, each with the code that awaits it
  db,         \* the remote catalog (raw items), as the service holds it
  nextFile,   \* next fresh File object
  procCalls,  \* per File object, the processing calls issued for it
  calls,      \* remote calls the user has started so far
  lastEvent,  \* the handler or continuation that ran last
  fnIn,       \* input of the pure function the last step evaluated
  fnOut,      \* its result
  dz,         \* the mounted ClothingDropzone instance, if any
  objectUrls, \* per object URL, how often it was created and revoked
  registry,   \* useModal: the generic registry (modals, modalData, timers)
  auth        \* authStore (user, isAuthenticated, isLoading, error) and the token

vars ==
  <<store, w, detail, wConfirm, tasks, db, nextFile, procCalls, calls, lastEvent,
    fnIn, fnOut, dz, objectUrls, registry, auth>>

(***************************************************************************)
(* utils/helpers: transformItemsForDisplay.  A raw item carries every      *)
(* field the function probes; Empty / 0 stand for an absent field.         *)
(***************************************************************************)
FirstUrl(a, b, c, d) ==
  IF a # 0 THEN a ELSE IF b # 0 THEN b ELSE IF c # 0 THEN c ELSE d

\* Variant for C19: the generic name probed before the service's item_name.
transformItemGenericFirst(item) ==
  [ image |-> FirstUrl(item.image_url, item.original_image_url, item.image, item.preview),
    name |-> OrElse(item.name, OrElse(item.itemName, OrElse(item.item_name, Untitled))),
    weather |-> OrElse(item.weather, OrElse(item.season, OrElse(item.item_weather, Untitled))),
    id |-> IF item.id # 0 THEN item.id ELSE item._id ]

transformItem(item) ==
  [ image |-> FirstUrl(item.image_url, item.original_image_url, item.image, item.preview),
    name |-> OrElse(item.item_name, OrElse(item.itemName, OrElse(item.name, Untitled))),
    weather |-> OrElse(item.weather, OrElse(item.season, OrElse(item.item_weather, Untitled))),
    id |-> IF item.id # 0 THEN item.id ELSE item._id ]

\* A JavaScript value handed to transformItemsForDisplay: an array with its
\* elements, or anything Array.isArray rejects.
Array(elems) == [isArray |-> TRUE, elems |-> elems]
NotArray == [isArray |-> FALSE, elems |-> << >>]

transformItemsForDisplay(items) ==
  IF ~items.isArray THEN << >>
  ELSE [i \in 1..Len(items.elems) |-> transformItem(items.elems[i])]

\* An item as the wardrobe service returns it (README: item_name, season,
\* image_url, id).
RawItem(id, itemName, season, imageUrl) ==
  [ id |-> id, _id |-> 0,
    item_name |-> itemName, itemName |-> Empty, name |-> Empty,
    weather |-> Empty, season |-> season, item_weather |-> Empty,
    image_url |-> imageUrl, original_image_url |-> 0, image |-> 0, preview |-> 0 ]

(***************************************************************************)
(* wardrobeStore.js                                                        *)
(***************************************************************************)
\* A list response after the axios interceptor: a bare array, or an object
\* that may carry items and/or data (absent fields are flagged, not empty).
ListResponse(isArray, array, hasItems, items, hasData, data) ==
  [isArray |-> isArray, array |-> array,
   hasItems |-> hasItems, items |-> items,
   hasData |-> hasData, data |-> data]

\* The envelope of the service: { success: true, data: [...] }.
Envelope(list) == ListResponse(FALSE, << >>, FALSE, << >>, TRUE, list)

\* fetchItems, lines 28-35: the shapes probed, in the order of the code.
rawItemsOf(response) ==
  IF response.isArray THEN response.array
  ELSE IF response.hasItems THEN response.items
  ELSE IF response.hasData THEN response.data
  ELSE << >>

\* set({ loading: true, error: null }), the first statement of every operation
storeBegin(st) == [st EXCEPT !.loading = TRUE, !.error = "null"]

fetchItemsResolved(st, response) ==
  [st EXCEPT !.items = transformItemsForDisplay(Array(rawItemsOf(response))),
             !.loading = FALSE]

\* fetchItems catch block, line 40
fetchItemsRejected(st) ==
  [st EXCEPT !.error = "fail", !.loading = FALSE, !.items = << >>]

addItemResolved(st, rawItem) ==
  [st EXCEPT !.items = Append(st.items, transformItem(rawItem)),
             !.loading = FALSE]

\* Variant for C12: an update that keeps the old entry's name and weather.
updateItemMerged(st, id, rawItem) ==
  [st EXCEPT !.items = [i \in 1..Len(st.items) |->
                          IF st.items[i].id = id
                          THEN [st.items[i] EXCEPT !.image = transformItem(rawItem).image]
                          ELSE st.items[i]],
             !.loading = FALSE]

updateItemResolved(st, id, rawItem) ==
  [st EXCEPT !.items = [i \in 1..Len(st.items) |->
                          IF st.items[i].id = id THEN transformItem(rawItem)
                          ELSE st.items[i]],
             !.loading = FALSE]

RECURSIVE FilterOut(_, _)
FilterOut(items, id) ==
  IF items = << >> THEN << >>
  ELSE IF Head(items).id = id THEN FilterOut(Tail(items), id)
       ELSE <<Head(items)>> \o FilterOut(Tail(items), id)

removeItemResolved(st, id) ==
  [st EXCEPT !.items = FilterOut(st.items, id), !.loading = FALSE]

\* catch block of addItem, updateItem and removeItem
mutationRejected(st) == [st EXCEPT !.error = "fail", !.loading = FALSE]

setOpenModal(st, modalName) == [st EXCEPT !.openModal = modalName]
setCurrentItemId(st, id) == [st EXCEPT !.currentItemId = id]

\* items.find(i => i.id === id)
HasItem(items, id) == \E i \in 1..Len(items) : items[i].id = id
FindItem(items, id) ==
  items[CHOOSE i \in 1..Len(items) :
          items[i].id = id /\ \A j \in 1..(i - 1) : items[j].id # id]

(***************************************************************************)
(* The remote service.                                                     *)
(***************************************************************************)
\* A call in flight and the code awaiting it (cont).
Task(op, cont, file, id, name, weather) ==
  [op |-> op, cont |-> cont, file |-> file, id |-> id, name |-> name, weather |-> weather]

RemoveAt(s, i) == SubSeq(s, 1, i - 1) \o SubSeq(s, i + 1, Len(s))

InFlight(op) == {i \in 1..Len(tasks) : tasks[i].op = op}

\* The service stores what it was sent (api.service createItem sends
\* item_name and season only when truthy) and serves the image of the file.
ImageOf(file) == 100 + file

dbCreate(d, t) ==
  [items |-> Append(d.items, RawItem(d.nextId, t.name, t.weather, ImageOf(t.file))),
   nextId |-> d.nextId + 1]

\* api.service updateItem: item_name and season are always sent, the image
\* when present.
dbUpdate(d, t) ==
  [d EXCEPT !.items =
     [i \in 1..Len(d.items) |->
        IF d.items[i].id = t.id
        THEN RawItem(t.id, t.name, t.weather,
                     IF t.file # 0 THEN ImageOf(t.file) ELSE d.items[i].image_url)
        ELSE d.items[i]]]

dbDelete(d, id) == [d EXCEPT !.items = FilterOut(d.items, id)]

(***************************************************************************)
(* utils.validateImageFile.  A File is its MIME type, its name and its     *)
(* size in bytes.                                                          *)
(***************************************************************************)
File(type, name, size) == [present |-> TRUE, type |-> type, name |-> name, size |-> size]
NoFile == [present |-> FALSE, type |-> "", name |-> Empty, size |-> 0]

UpperCaseLetters ==
  <<"A", "B", "C", "D", "E", "F", "G", "H", "I", "J", "K", "L", "M",
    "N", "O", "P", "Q", "R", "S", "T", "U", "V", "W", "X", "Y", "Z">>
LowerCaseLetters ==
  <<"a", "b", "c", "d", "e", "f", "g", "h", "i", "j", "k", "l", "m",
    "n", "o", "p", "q", "r", "s", "t", "u", "v", "w", "x", "y", "z">>

\* String.prototype.toLowerCase
toLowerCase(s) ==
  [k \in DOMAIN s |->
     IF \E i \in DOMAIN UpperCaseLetters : UpperCaseLetters[i] = s[k]
     THEN LowerCaseLetters[CHOOSE i \in DOMAIN UpperCaseLetters : UpperCaseLetters[i] = s[k]]
     ELSE s[k]]

\* String.prototype.endsWith
endsWith(s, suffix) ==
  /\ Len(s) >= Len(suffix)
  /\ SubSeq(s, Len(s) - Len(suffix) + 1, Len(s)) = suffix

allowedTypes == {"image/jpeg", "image/jpg", "image/png", "image/heic", "image/heif"}
allowedExtensions ==
  {<<".", "j", "p", "g">>, <<".", "j", "p", "e", "g">>, <<".", "p", "n", "g">>,
   <<".", "h", "e", "i", "c">>, <<".", "h", "e", "i", "f">>}
maxSizeInBytes == 10 * 1024 * 1024

Validation(isValid, code) ==
  [fn |-> "validateImageFile", isValid |-> isValid, code |-> code]

\* lines 227-229: fileName and isValidFormat
isValidFormat(file) ==
  LET fileName == toLowerCase(file.name)
  IN  \/ file.type \in allowedTypes
      \/ \E ext \in allowedExtensions : endsWith(fileName, ext)

\* Variant for C13: a check that reports every invalid file as a wrong type.
validateImageFileOneReason(file) ==
  IF /\ file.present
     /\ isValidFormat(file)
     /\ file.size <= maxSizeInBytes
  THEN Validation(TRUE, "null")
  ELSE Validation(FALSE, "file-invalid-type")

\* Variant for C35: a size check that also rejects a file of exactly 10 MB.
validateImageFileAtLeast(file) ==
  IF ~file.present THEN Validation(FALSE, "no-file")
  ELSE IF ~isValidFormat(file) THEN Validation(FALSE, "file-invalid-type")
  ELSE IF file.size >= maxSizeInBytes THEN Validation(FALSE, "file-too-large")
  ELSE Validation(TRUE, "null")

validateImageFile(file) ==
  IF ~file.present THEN Validation(FALSE, "no-file")
  ELSE IF ~isValidFormat(file) THEN Validation(FALSE, "file-invalid-type")
  ELSE IF file.size > maxSizeInBytes THEN Validation(FALSE, "file-too-large")
  ELSE Validation(TRUE, "null")

(***************************************************************************)
(* Wardrobe.jsx: component state, toast and render.                        *)
(***************************************************************************)
NullItem ==
  [sel |-> FALSE, id |-> 0, name |-> Empty, weather |-> Empty, image |-> 0,
   processedFile |-> 0]

\* setSelectedItem(item) with a card's item (handleCardClick)
Selected(item) ==
  [sel |-> TRUE, id |-> item.id, name |-> item.name, weather |-> item.weather,
   image |-> item.image, processedFile |-> 0]

\* useToast.showToast: the toast holds the notification shown last.  Its text
\* is not kept, and the 3-second timer, which only hides it, is not modelled.
showToast(ws, message, type) ==
  [ws EXCEPT !.toast = [isVisible |-> TRUE, type |-> type]]
showSuccess(ws, message) == showToast(ws, message, "success")
showError(ws, message) == showToast(ws, message, "error")

\* Wardrobe.isLoading (useMemo, lines 69-72)
isLoading(st, ws) ==
  st.loading \/ ws.uploadState \in {"processing", "saving", "updating", "deleting"}

\* Wardrobe.currentSelectedItem (useMemo, lines 63-67): the fields of
\* selectedItem override those of the cached item; selectedItem carries every
\* field a cached item has.
currentSelectedItem(st, ws) ==
  IF ~ws.selectedItem.sel THEN NullItem
  ELSE IF HasItem(st.items, ws.selectedItem.id)
       THEN LET itemInStore == FindItem(st.items, ws.selectedItem.id)
            IN  [sel |-> TRUE,
                 id |-> ws.selectedItem.id,
                 name |-> ws.selectedItem.name,
                 weather |-> ws.selectedItem.weather,
                 image |-> ws.selectedItem.image,
                 processedFile |-> ws.selectedItem.processedFile]
       ELSE ws.selectedItem

\* const isEditMode = !!(selectedItem && selectedItem.id)
isEditMode(ws) == ws.selectedItem.sel /\ ws.selectedItem.id # 0

\* Wardrobe.renderContent (lines 352-398) with ClothingGrid's choice between
\* the list and ClothingDetail (ClothingGrid, line 48).
View(st, ws) ==
  IF isLoading(st, ws) THEN "loading"
  ELSE IF ws.uploadState = "error" THEN "error"
  ELSE IF ws.uploadState = "confirming" /\ ws.processedImageUrl # 0 THEN "confirm"
  ELSE IF Len(st.items) = 0 \/ (Len(st.items) = 1 /\ st.openModal = "details")
       THEN "empty"
  ELSE IF currentSelectedItem(st, ws).sel THEN "detail"
  ELSE "grid"

\* Variant for C4: Retry still rendered at retryCount 2.
RetryOfferedAtCap(retryCount) == retryCount <= 2

\* ProcessingError.jsx line 15: which of Retry / Upload Different is rendered
RetryOffered(retryCount) == retryCount < 2

(***************************************************************************)
(* ClothingDetail.jsx: component state.                                    *)
(***************************************************************************)
Unmounted ==
  [mounted |-> FALSE, isEditing |-> FALSE,
   editState |-> [name |-> Empty, weather |-> Empty, image |-> 0],
   nameError |-> FALSE, confirm |-> "none"]

\* useState initial values, lines 12-18
mountDetail(item, isEditingItem) ==
  [mounted |-> TRUE, isEditing |-> isEditingItem,
   editState |-> [name |-> item.name, weather |-> OrElse(item.weather, Empty),
                  image |-> 0],
   nameError |-> FALSE, confirm |-> "none"]

\* effect of lines 36-44: the confirmed File becomes the pending image
syncProcessedFile(d, item) ==
  IF d.isEditing /\ item.processedFile # 0
  THEN [d EXCEPT !.editState.image = item.processedFile]
  ELSE d

\* The ClothingDetail instance after a render of the page: unmounted when the
\* page shows something else, mounted afresh when it comes back.
RenderDetail(d, st, ws) ==
  IF View(st, ws) # "detail" THEN Unmounted
  ELSE syncProcessedFile(
         IF d.mounted THEN d
         ELSE mountDetail(currentSelectedItem(st, ws), ws.isEditingItem),
         currentSelectedItem(st, ws))

\* resetEditState (lines 123-141): the local part; onEditToggle(false) is
\* applied to the page by the action.
resetEditState(d, item) ==
  [d EXCEPT !.isEditing = FALSE,
            !.editState = [name |-> item.name,
                           weather |-> OrElse(item.weather, Empty),
                           image |-> 0]]

\* handleWeatherChange (lines 116-121)
handleWeatherChange(d, weather) ==
  [d EXCEPT !.editState.weather =
              IF d.editState.weather = weather THEN Empty ELSE weather]

\* The updates object built by the save-changes callback (lines 167-177)
updatesOf(editState) ==
  [itemName |-> OrElse(editState.name, DEFAULT_ITEM_NAME),
   weather |-> OrElse(editState.weather, DEFAULT_WEATHER),
   file |-> editState.image]

\* A modal dialog covers the page: the content below takes no clicks.
ModalOpen == store.openModal # "null" \/ wConfirm.isOpen \/ detail.confirm # "none"

(***************************************************************************)
(* Wardrobe.jsx: handlers (the synchronous part of each).                  *)
(***************************************************************************)
\* handleFilesRejected (79-88): an error toast whatever the code
handleFilesRejected(ws, code) ==
  IF code = "file-too-large"
  THEN showError(ws, "File is too large. Maximum size is 10MB.")
  ELSE IF code = "file-invalid-type"
       THEN showError(ws, "Invalid file format. Please upload JPEG, PNG, or HEIC.")
       ELSE showError(ws, "Failed to upload image. Please try another file.")

\* handleApplyUpload, lines 92-96
handleApplyUpload(ws, file) ==
  [ws EXCEPT !.uploadedFile = file, !.uploadState = "processing", !.retryCount = 0]

\* Variant for C21: a processing response that the handler drops.
applyUploadDoneDropped(ws, file, outcome) == ws

\* handleApplyUpload, lines 98-115: outcome is "url" (the response carries a
\* processed URL), "nourl" (it resolves without one) or "reject".
applyUploadDone(ws, file, outcome) ==
  IF outcome = "url"
  THEN showSuccess([ws EXCEPT !.processedImageUrl = ImageOf(file),
                              !.uploadState = "confirming"],
                   "Background has been successfully removed")
  ELSE showError([ws EXCEPT !.uploadState = "error"], "Failed to process image")

\* handleRetryProcessing, line 119: the early return
retryReturnsEarly(ws) == ws.uploadedFile = 0 \/ ws.retryCount >= 2

\* handleRetryProcessing, lines 121-122
handleRetryProcessing(ws) ==
  IF retryReturnsEarly(ws) THEN ws
  ELSE [ws EXCEPT !.uploadState = "processing", !.retryCount = @ + 1]

\* Variant for C7: a retry that ends in the error state whatever the outcome.
retryDoneAlwaysError(ws, file, outcome) ==
  showError([ws EXCEPT !.uploadState = "error"], "Processing failed")

\* handleRetryProcessing, lines 124-134: no check of the URL
retryDone(ws, file, outcome) ==
  IF outcome = "reject"
  THEN showError([ws EXCEPT !.uploadState = "error"], "Processing failed")
  ELSE showSuccess([ws EXCEPT !.processedImageUrl =
                                IF outcome = "url" THEN ImageOf(file) ELSE 0,
                              !.uploadState = "confirming"],
                   "Background has been successfully removed")

\* handleProcessEditImage, lines 161-173
handleProcessEditImage(ws, tempEdits) ==
  IF ~ws.selectedItem.sel THEN ws
  ELSE [ws EXCEPT !.selectedItem.name = tempEdits.name,
                  !.selectedItem.weather = tempEdits.weather,
                  !.uploadState = "processing"]

\* handleProcessEditImage, lines 174-188
processEditDone(ws, file, outcome) ==
  IF outcome = "url"
  THEN showSuccess([ws EXCEPT !.processedImageUrl = ImageOf(file),
                              !.uploadedFile = file,
                              !.uploadState = "confirming"],
                   "Background has been successfully removed")
  ELSE showError([ws EXCEPT !.uploadState = "error"], "Failed to process image")

\* handleUploadDifferent (137-143), handleCancelUpload (145-150),
\* handleCancelAction (212-219), handleUploadDifferentAction (221-227):
\* the four resets
\* Variant for C17: Upload Different that keeps the retry count.
handleUploadDifferentKeepsCount(ws) ==
  [ws EXCEPT !.uploadState = "idle", !.uploadedFile = 0, !.processedImageUrl = 0]

handleUploadDifferent(ws) ==
  [ws EXCEPT !.uploadState = "idle", !.uploadedFile = 0,
             !.processedImageUrl = 0, !.retryCount = 0]

handleCancelUpload(ws) ==
  [ws EXCEPT !.uploadState = "idle", !.uploadedFile = 0,
             !.processedImageUrl = 0, !.retryCount = 0]

\* Variant for C8: Cancel that keeps the session's file and retry count.
handleCancelActionKeepsSession(ws) ==
  [ws EXCEPT !.uploadState = "idle", !.processedImageUrl = 0]

handleCancelAction(ws) ==
  [ws EXCEPT !.uploadState = "idle", !.uploadedFile = 0,
             !.processedImageUrl = 0, !.retryCount = 0]

\* Variant for C28: Upload Different that keeps the session's file.
handleUploadDifferentActionKeepsFile(ws) ==
  [ws EXCEPT !.uploadState = "idle", !.processedImageUrl = 0, !.retryCount = 0]

handleUploadDifferentAction(ws) ==
  [ws EXCEPT !.uploadState = "idle", !.uploadedFile = 0,
             !.processedImageUrl = 0, !.retryCount = 0]

\* Variant for C25: a confirmation in edit mode that drops the new file.
handleConfirmActionNoMerge(ws) ==
  IF isEditMode(ws)
  THEN [ws EXCEPT !.selectedItem.image = ws.processedImageUrl,
                  !.uploadState = "idle",
                  !.isEditingItem = TRUE,
                  !.uploadedFile = 0,
                  !.processedImageUrl = 0]
  ELSE [ws EXCEPT !.uploadState = "idle"]

\* handleConfirmAction, lines 192-210
handleConfirmAction(ws) ==
  IF isEditMode(ws)
  THEN [ws EXCEPT !.selectedItem.image = ws.processedImageUrl,
                  !.selectedItem.processedFile = ws.uploadedFile,
                  !.uploadState = "idle",
                  !.isEditingItem = TRUE,
                  !.uploadedFile = 0,
                  !.processedImageUrl = 0]
  ELSE [ws EXCEPT !.uploadState = "idle"]

\* handleSaveEdit, lines 240-251: TRUE when the handler returns before the
\* update (nothing changed against the cached item)
saveEditSkips(items, itemId, updates) ==
  /\ HasItem(items, itemId)
  /\ LET originalItem == FindItem(items, itemId)
     IN  /\ Trim(updates.itemName) = Trim(originalItem.name)
         /\ Trim(updates.weather) = Trim(originalItem.weather)
         /\ updates.file = 0

\* useWardrobeHandlers.handleSaveEdit, lines 97-108: the second check
handlersSaveEditSkips(items, itemId, updates) ==
  /\ HasItem(items, itemId)
  /\ LET originalItem == FindItem(items, itemId)
     IN  /\ Trim(updates.itemName) = Trim(originalItem.name)
         /\ Trim(updates.weather) = Trim(originalItem.weather)
         /\ updates.file = 0

\* handleCardClick (266-269) and handleBack (271-274)
handleCardClick(ws, item) ==
  [ws EXCEPT !.selectedItem = Selected(item), !.isEditingItem = FALSE]

handleBack(ws) == [ws EXCEPT !.selectedItem = NullItem, !.isEditingItem = FALSE]

(***************************************************************************)
(* Inputs.                                                                 *)
(***************************************************************************)
\* What the user types into the name field of the edit form.
TypedNames == {Empty, <<" ">>, Cd}
\* The weather boxes the user ticks (a subset of WEATHER_TYPES).
WeatherInputs == {Spring}
\* What the user enters in the Optional Details form.
DetailsNames == {Empty, Cd}
DetailsWeathers == {Empty}
\* Catalogs the service may hold when the page is opened.
\* Files the user drops or picks: a 12 MB JPEG, a 12 MB PDF, a PNG of
\* exactly 10 MB known by its extension only, and a 1 MB JPEG.
TwelveMbJpeg == File("image/jpeg", <<"a", ".", "j", "p", "g">>, 12 * 1024 * 1024)
PickedFiles ==
  {TwelveMbJpeg,
   File("application/pdf", <<"a", ".", "p", "d", "f">>, 12 * 1024 * 1024),
   File("", <<"a", ".", "p", "n", "g">>, 10 * 1024 * 1024),
   File("image/jpeg", <<"a", ".", "j", "p", "g">>, 1024 * 1024)}
FileChecked(file) == [fn |-> "validateImageFile", file |-> file]

\* ClothingDropzone: uploadedFiles and filesRef.current are lists of object
\* URLs (the preview of each entry), appliedRef.current a flag.
DropzoneUnmounted ==
  [mounted |-> FALSE, uploadedFiles |-> << >>, filesRef |-> << >>, appliedRef |-> FALSE]
DropzoneMounted ==
  [mounted |-> TRUE, uploadedFiles |-> << >>, filesRef |-> << >>, appliedRef |-> FALSE]

\* The browser's object URLs: URL.createObjectURL and URL.revokeObjectURL.
NoObjectUrls == [u \in 1..MaxUrls |-> [created |-> FALSE, revoked |-> 0]]
createObjectURL(urls, u) == [urls EXCEPT ![u].created = TRUE]
revokeAll(urls, list) ==
  [u \in 1..MaxUrls |->
     IF \E i \in 1..Len(list) : list[i] = u
     THEN [urls[u] EXCEPT !.revoked = @ + 1]
     ELSE urls[u]]
FreshUrl(urls) == CHOOSE u \in 1..MaxUrls : ~urls[u].created /\ \A v \in 1..(u - 1) : urls[v].created

InitialCatalogs == { <<RawItem(1, Empty, Empty, 1)>> }

\* constants/index.js MODAL_TYPES: the names the registry is used with
ModalNames == {"confirmSave", "confirmSkip"}

\* useModal, lines 72-73: modals and modalData start as {}; no timer is
\* pending.  modals[name] is "absent", "true" or "false"; modalData[name] is
\* 0 when the key is absent; timers[name] counts the pending removals.
InitRegistry ==
  [modals |-> [n \in ModalNames |-> "absent"],
   modalData |-> [n \in ModalNames |-> 0],
   timers |-> [n \in ModalNames |-> 0]]

\* authStore, lines 9-12, created with the given token in localStorage
\* (0: none)
AuthCreated(token) ==
  [user |-> 0, isAuthenticated |-> token # 0, isLoading |-> FALSE, error |-> "null",
   token |-> token]

ClosedConfirm == [isOpen |-> FALSE, type |-> "null", data |-> 0, onConfirm |-> "null"]

\* useModal (hooks): the confirmation slot.  A callback is named by the
\* handler that passed it; "null" is no callback.
\* Variant for C34: an opening that keeps the confirmation already pending.
openConfirmModalKeepsPending(type, data, onConfirm) ==
  IF wConfirm.isOpen THEN wConfirm
  ELSE [isOpen |-> TRUE, type |-> type, data |-> data, onConfirm |-> onConfirm]

openConfirmModal(type, data, onConfirm) ==
  [isOpen |-> TRUE, type |-> type, data |-> data, onConfirm |-> onConfirm]

closeConfirmModal == ClosedConfirm

\* Variant for C20: the stored callback is called without the null test.
handleConfirmUnguarded(confirmModal) ==
  [confirmModal |-> closeConfirmModal, invoked |-> <<confirmModal.onConfirm>>]

\* useModal.handleConfirm: the slot after it, and the callbacks it invoked
handleConfirm(confirmModal) ==
  [confirmModal |-> closeConfirmModal,
   invoked |-> IF confirmModal.onConfirm # "null"
               THEN <<confirmModal.onConfirm>> ELSE << >>]

\* ConfirmModal.handleConfirm: onConfirm(); onClose(), wired to the hook's
\* handleConfirm and closeConfirmModal
ConfirmModalHandleConfirm(confirmModal) ==
  [confirmModal |-> closeConfirmModal, invoked |-> handleConfirm(confirmModal).invoked]

InitStore ==
  [items |-> << >>, loading |-> FALSE, error |-> "null", openModal |-> "null",
   currentItemId |-> 0]

InitWardrobe ==
  [selectedItem |-> NullItem, isEditingItem |-> FALSE, uploadState |-> "idle",
   uploadedFile |-> 0, processedImageUrl |-> 0, retryCount |-> 0,
   toast |-> [isVisible |-> FALSE, type |-> "success"]]

NoFn == [fn |-> "none"]

\* The page after its first render and its mount effect (initFetch, lines
\* 48-57): fetchItems has set loading and issued the list call.
Init ==
  /\ store = storeBegin(InitStore)
  /\ w = InitWardrobe
  /\ detail = Unmounted
  /\ wConfirm = ClosedConfirm
  /\ tasks = <<Task("list", "init", 0, 0, Empty, Empty)>>
  /\ db \in {[items |-> c, nextId |-> Len(c) + 1] : c \in InitialCatalogs}
  /\ nextFile = 1
  /\ procCalls = [f \in 1..MaxFiles |-> 0]
  /\ calls = 0
  /\ lastEvent = "mount"
  /\ fnIn = NoFn
  /\ fnOut = NoFn
  /\ dz = DropzoneUnmounted
  /\ objectUrls = NoObjectUrls
  /\ registry = InitRegistry
  /\ auth = AuthCreated(0)

\* One step of the page: the new store, page state, detail instance (before
\* the render), page dialog and calls in flight.
StepChecking(ev, st, ws, d, wc, tk, in, out) ==
  /\ store' = st
  /\ w' = ws
  /\ detail' = RenderDetail(d, st, ws)
  /\ wConfirm' = wc
  /\ tasks' = tk
  /\ lastEvent' = ev
  /\ fnIn' = in
  /\ fnOut' = out
  /\ UNCHANGED <<dz, objectUrls, registry, auth>>

\* A step whose handler validates no file.
Step(ev, st, ws, d, wc, tk) == StepChecking(ev, st, ws, d, wc, tk, NoFn, NoFn)

\* The user starts n remote calls, within the budget of the run.
Started(n) == calls + n <= MaxCalls /\ calls' = calls + n

\* The remote calls among tk that are not chained list calls
UserCalls(tk) == Cardinality({i \in 1..Len(tk) : tk[i].op # "list"})

ProcessTask(cont, file) == Task("process", cont, file, 0, Empty, Empty)
ListTask(cont) == Task("list", cont, 0, 0, Empty, Empty)

(***************************************************************************)
(* Upload workflow: user actions.                                          *)
(***************************************************************************)
\* handleAddClick (340-342): the Add button of the list or of EmptyWardrobe
HandleAddClick ==
  /\ View(store, w) \in {"grid", "empty"}
  /\ ~ModalOpen
  /\ Step("handleAddClick", setOpenModal(store, "upload"), w, detail, wConfirm, tasks)
  /\ UNCHANGED <<db, nextFile, procCalls, calls>>

\* handleCloseUpload (344-346): the upload dialog is dismissed
HandleCloseUpload ==
  /\ store.openModal = "upload"
  /\ Step("handleCloseUpload", setOpenModal(store, "null"), w, detail, wConfirm, tasks)
  /\ UNCHANGED <<db, nextFile, procCalls, calls>>

\* handleApplyUpload (91-116): Apply in the upload dialog with a fresh file
HandleApplyUpload ==
  /\ store.openModal = "upload"
  /\ nextFile <= MaxFiles
  /\ \E file \in PickedFiles : validateImageFile(file).isValid
  /\ Step("handleApplyUpload", setOpenModal(store, "null"),
          handleApplyUpload(w, nextFile), detail, wConfirm,
          Append(tasks, ProcessTask("apply", nextFile)))
  /\ procCalls' = [procCalls EXCEPT ![nextFile] = @ + 1]
  /\ nextFile' = nextFile + 1
  /\ UNCHANGED <<db>>
  /\ Started(1)

\* ClothingDropzone.handleDrop (26-43) with a file that fails
\* validateImageFile: handleReject -> Wardrobe.handleFilesRejected, and the
\* drop ends there.
HandleFilesRejected ==
  /\ store.openModal = "upload"
  /\ \E file \in PickedFiles :
       /\ ~validateImageFile(file).isValid
       /\ StepChecking("handleFilesRejected", store,
                       handleFilesRejected(w, validateImageFile(file).code),
                       detail, wConfirm, tasks,
                       FileChecked(file), validateImageFile(file))
  /\ UNCHANGED <<db, nextFile, procCalls, calls>>

\* handleRetryProcessing (118-135): the Retry button of ProcessingError
HandleRetryProcessing ==
  /\ View(store, w) = "error"
  /\ RetryOffered(w.retryCount)
  /\ ~ModalOpen
  /\ Step("handleRetryProcessing", store, handleRetryProcessing(w), detail, wConfirm,
          IF retryReturnsEarly(w) THEN tasks
          ELSE Append(tasks, ProcessTask("retry", w.uploadedFile)))
  /\ procCalls' = IF retryReturnsEarly(w) THEN procCalls
                  ELSE [procCalls EXCEPT ![w.uploadedFile] = @ + 1]
  /\ Started(IF retryReturnsEarly(w) THEN 0 ELSE 1)
  /\ UNCHANGED <<db, nextFile>>

\* handleUploadDifferent (137-143): rendered instead of Retry
HandleUploadDifferent ==
  /\ View(store, w) = "error"
  /\ ~RetryOffered(w.retryCount)
  /\ ~ModalOpen
  /\ Step("handleUploadDifferent", setOpenModal(store, "upload"),
          handleUploadDifferent(w), detail, wConfirm, tasks)
  /\ UNCHANGED <<db, nextFile, procCalls, calls>>

\* handleCancelUpload (145-150): Return to Wardrobe
HandleCancelUpload ==
  /\ View(store, w) = "error"
  /\ ~ModalOpen
  /\ Step("handleCancelUpload", store, handleCancelUpload(w), detail, wConfirm, tasks)
  /\ UNCHANGED <<db, nextFile, procCalls, calls>>

\* handleConfirmAction (192-210): Confirm Image
HandleConfirmAction ==
  /\ View(store, w) = "confirm"
  /\ ~ModalOpen
  /\ Step("handleConfirmAction",
          IF isEditMode(w) THEN store ELSE setOpenModal(store, "details"),
          handleConfirmAction(w), detail, wConfirm, tasks)
  /\ UNCHANGED <<db, nextFile, procCalls, calls>>

\* handleCancelAction (212-219): Back to Edit / Return to Wardrobe
HandleCancelAction ==
  /\ View(store, w) = "confirm"
  /\ ~ModalOpen
  /\ Step("handleCancelAction", store, handleCancelAction(w), detail, wConfirm, tasks)
  /\ UNCHANGED <<db, nextFile, procCalls, calls>>

\* handleUploadDifferentAction (221-236)
HandleUploadDifferentAction ==
  /\ View(store, w) = "confirm"
  /\ ~ModalOpen
  /\ Step("handleUploadDifferentAction",
          IF isEditMode(w) THEN store ELSE setOpenModal(store, "upload"),
          handleUploadDifferentAction(w), detail, wConfirm, tasks)
  /\ UNCHANGED <<db, nextFile, procCalls, calls>>

(***************************************************************************)
(* Processing calls resolve.                                               *)
(***************************************************************************)
processDone(ws, t, outcome) ==
  CASE t.cont = "apply" -> applyUploadDone(ws, t.file, outcome)
    [] t.cont = "retry" -> retryDone(ws, t.file, outcome)
    [] t.cont = "edit" -> processEditDone(ws, t.file, outcome)

ProcessSettles(ev, outcome) ==
  \E i \in InFlight("process") :
    /\ Step(ev, store, processDone(w, tasks[i], outcome), detail, wConfirm,
            RemoveAt(tasks, i))
    /\ UNCHANGED <<db, nextFile, procCalls, calls>>

ProcessResolved == ProcessSettles("processResolved", "url")
ProcessNoUrl == ProcessSettles("processNoUrl", "nourl")
ProcessRejected == ProcessSettles("processRejected", "reject")

(***************************************************************************)
(* ClothingDetail.jsx: user actions.                                       *)
(***************************************************************************)
\* The item prop of ClothingDetail: ClothingGrid passes selectedItem, which
\* the page sets to currentSelectedItem (Wardrobe.jsx line 387).
itemProp == currentSelectedItem(store, w)

DetailClickable == detail.mounted /\ ~ModalOpen

\* handleCardClick (266-269): a card of the list
HandleCardClick ==
  /\ View(store, w) = "grid"
  /\ ~ModalOpen
  /\ \E i \in 1..Len(store.items) :
       Step("handleCardClick", store, handleCardClick(w, store.items[i]), detail,
            wConfirm, tasks)
  /\ UNCHANGED <<db, nextFile, procCalls, calls>>

\* handleBackClick (188-197): Back is rendered in view mode only
HandleBackClick ==
  /\ DetailClickable
  /\ ~detail.isEditing
  /\ Step("handleBackClick", store, handleBack(w), detail, wConfirm, tasks)
  /\ UNCHANGED <<db, nextFile, procCalls, calls>>

\* handleEdit (82-85)
HandleEdit ==
  /\ DetailClickable
  /\ ~detail.isEditing
  /\ Step("handleEdit", store, [w EXCEPT !.isEditingItem = TRUE],
          [detail EXCEPT !.isEditing = TRUE], wConfirm, tasks)
  /\ UNCHANGED <<db, nextFile, procCalls, calls>>

\* TextInput onChange (245-248)
TypeName ==
  /\ DetailClickable
  /\ detail.isEditing
  /\ \E name \in TypedNames :
       Step("typeName", store, w,
            [detail EXCEPT !.editState.name = name, !.nameError = FALSE],
            wConfirm, tasks)
  /\ UNCHANGED <<db, nextFile, procCalls, calls>>

\* Checkbox onChange (268)
HandleWeatherChange ==
  /\ DetailClickable
  /\ detail.isEditing
  /\ \E weather \in WeatherInputs :
       Step("handleWeatherChange", store, w, handleWeatherChange(detail, weather),
            wConfirm, tasks)
  /\ UNCHANGED <<db, nextFile, procCalls, calls>>

\* handleImageChange (93-114) with a file that passes validateImageFile:
\* onProcessImage(file, {name, weather}) = Wardrobe.handleProcessEditImage
HandleImageChange ==
  /\ DetailClickable
  /\ detail.isEditing
  /\ nextFile <= MaxFiles
  /\ \E file \in PickedFiles : validateImageFile(file).isValid
  /\ Step("handleProcessEditImage", store,
          handleProcessEditImage(w, [name |-> detail.editState.name,
                                     weather |-> detail.editState.weather]),
          detail, wConfirm, Append(tasks, ProcessTask("edit", nextFile)))
  /\ procCalls' = [procCalls EXCEPT ![nextFile] = @ + 1]
  /\ nextFile' = nextFile + 1
  /\ UNCHANGED <<db>>
  /\ Started(1)

\* handleImageChange with a file that fails validateImageFile (100-106)
HandleImageRejected ==
  /\ DetailClickable
  /\ detail.isEditing
  /\ \E file \in PickedFiles :
       /\ ~validateImageFile(file).isValid
       /\ StepChecking("handleImageRejected", store, w,
                       [detail EXCEPT !.confirm = "error"], wConfirm, tasks,
                       FileChecked(file), validateImageFile(file))
  /\ UNCHANGED <<db, nextFile, procCalls, calls>>

\* handleCancel (143-152)
HandleCancel ==
  /\ DetailClickable
  /\ detail.isEditing
  /\ IF hasChanges(detail.isEditing, itemProp, detail.editState)
     THEN Step("handleCancel", store, w,
               [detail EXCEPT !.confirm = "unsaved-changes"], wConfirm, tasks)
     ELSE Step("handleCancel", store, [w EXCEPT !.isEditingItem = FALSE],
               resetEditState(detail, itemProp), wConfirm, tasks)
  /\ UNCHANGED <<db, nextFile, procCalls, calls>>

\* handleSave (154-186), lines 157-164: the name check that stops the save
saveNameInvalid(editState) ==
  Trim(editState.name) # Empty /\ ~validateItemName(Trim(editState.name))

\* handleSave (154-186)
HandleSave ==
  /\ DetailClickable
  /\ detail.isEditing
  /\ IF hasChanges(detail.isEditing, itemProp, detail.editState)
     THEN IF saveNameInvalid(detail.editState)
          THEN Step("handleSave", store, w, [detail EXCEPT !.nameError = TRUE],
                    wConfirm, tasks)
          ELSE Step("handleSave", store, w, [detail EXCEPT !.confirm = "save-changes"],
                    wConfirm, tasks)
     ELSE Step("handleSave", store, [w EXCEPT !.isEditingItem = FALSE],
               resetEditState(detail, itemProp), wConfirm, tasks)
  /\ UNCHANGED <<db, nextFile, procCalls, calls>>

\* ConfirmModal onClose -> closeConfirmModal: the callback is dropped
DetailConfirmClose ==
  /\ detail.mounted
  /\ detail.confirm # "none"
  /\ Step("detailConfirmClose", store, w, [detail EXCEPT !.confirm = "none"],
          wConfirm, tasks)
  /\ UNCHANGED <<db, nextFile, procCalls, calls>>

\* modal.handleConfirm with the unsaved-changes callback (145-148):
\* resetEditState(true); onBack()
DetailConfirmDiscard ==
  /\ detail.mounted
  /\ detail.confirm = "unsaved-changes"
  /\ Step("detailConfirmDiscard", store, handleBack(w),
          [resetEditState(detail, itemProp) EXCEPT !.confirm = "none"], wConfirm, tasks)
  /\ UNCHANGED <<db, nextFile, procCalls, calls>>

\* modal.handleConfirm with the error callback (() => {})
DetailConfirmError ==
  /\ detail.mounted
  /\ detail.confirm = "error"
  /\ Step("detailConfirmError", store, w, [detail EXCEPT !.confirm = "none"],
          wConfirm, tasks)
  /\ UNCHANGED <<db, nextFile, procCalls, calls>>

\* Wardrobe.handleSaveEdit (238-264) up to its first await, as called by the
\* save-changes callback: the page state it leaves.
handleSaveEdit(ws, items, itemId, updates) ==
  IF saveEditSkips(items, itemId, updates)
  THEN [ws EXCEPT !.isEditingItem = FALSE]
  ELSE [ws EXCEPT !.uploadState = "updating"]

\* The call Wardrobe.handleSaveEdit leaves in flight: nothing when it
\* returned early; the update issued by the store's updateItem; or, when
\* useWardrobeHandlers.handleSaveEdit returned early, the list call of the
\* fetchItems that follows it.
saveEditCalls(items, itemId, updates) ==
  IF saveEditSkips(items, itemId, updates) THEN << >>
  ELSE IF handlersSaveEditSkips(items, itemId, updates)
       THEN <<ListTask("saveEditFetch")>>
       ELSE <<Task("update", "saveEdit", updates.file, itemId, updates.itemName,
                   updates.weather)>>

\* modal.handleConfirm with the save-changes callback (166-182):
\* onSave(item.id, updates); resetEditState(); onBack()
DetailConfirmSave ==
  /\ detail.mounted
  /\ detail.confirm = "save-changes"
  /\ LET updates == updatesOf(detail.editState)
         newCalls == saveEditCalls(store.items, itemProp.id, updates)
     IN  /\ Step("detailConfirmSave",
              IF newCalls = << >> THEN store ELSE storeBegin(store),
              handleBack(handleSaveEdit(w, store.items, itemProp.id, updates)),
              [resetEditState(detail, itemProp) EXCEPT !.confirm = "none"],
              wConfirm, tasks \o newCalls)
         /\ Started(UserCalls(newCalls))
  /\ UNCHANGED <<db, nextFile, procCalls>>

\* handleDelete (276-290): opens the delete confirmation of the page
HandleDelete ==
  /\ DetailClickable
  /\ ~detail.isEditing
  /\ Step("handleDelete", store, w, detail,
          openConfirmModal("delete", itemProp.id, "confirmDelete"), tasks)
  /\ UNCHANGED <<db, nextFile, procCalls, calls>>

\* closeConfirmModal of the page dialog
PageConfirmClose ==
  /\ wConfirm.isOpen
  /\ Step("pageConfirmClose", store, w, detail, ClosedConfirm, tasks)
  /\ UNCHANGED <<db, nextFile, procCalls, calls>>

\* modal.handleConfirm with the delete callback (278-288) up to its first
\* await: confirmDelete(id) -> removeItem(id)
PageConfirmDelete ==
  /\ wConfirm.isOpen
  /\ wConfirm.type = "delete"
  /\ Step("pageConfirmDelete",
          storeBegin(store),
          [w EXCEPT !.uploadState = "deleting"], detail, ClosedConfirm,
          IF wConfirm.data # 0
          THEN Append(tasks, Task("delete", "delete", 0, wConfirm.data, Empty, Empty))
          ELSE Append(tasks, ListTask("deleteFetch")))
  /\ Started(IF wConfirm.data # 0 THEN 1 ELSE 0)
  /\ UNCHANGED <<db, nextFile, procCalls>>

(***************************************************************************)
(* Optional Details dialog (OptionalDetailsForm, useWardrobeHandlers).     *)
(***************************************************************************)
\* Wardrobe.handleSaveDetails (293-315) / handleSkipDetails (317-338) up to
\* the first await, with the name and weather handed to handlers.handleApply.
\* With an uploaded file: addItem(file, name, weather) -> createItem.
\* Without: handlers.handleSaveDetails / confirmSkipDetails.
submitDetailsStore(st, ws, viaSave) ==
  IF ws.uploadedFile # 0 THEN storeBegin(setOpenModal(st, "null"))
  ELSE IF viaSave /\ st.currentItemId # 0 THEN storeBegin(st)
  ELSE setCurrentItemId(setOpenModal(st, "null"), 0)

submitDetailsPage(ws, viaSave) ==
  IF ws.uploadedFile # 0 THEN [ws EXCEPT !.uploadState = "saving"]
  ELSE showSuccess(ws, "Item saved successfully!")

\* Variant for C26: a create call sent without the session's file.
submitDetailsCallsNoFile(st, ws, viaSave, name, weather) ==
  IF ws.uploadedFile # 0
  THEN <<Task("create", "saveDetails", 0, 0, name, weather)>>
  ELSE << >>

submitDetailsCalls(st, ws, viaSave, name, weather) ==
  IF ws.uploadedFile # 0
  THEN <<Task("create", "saveDetails", ws.uploadedFile, 0, name, weather)>>
  ELSE IF viaSave /\ st.currentItemId # 0
       THEN <<Task("update", "detailsUpdate", 0, st.currentItemId,
                   OrElse(name, DEFAULT_ITEM_NAME), OrElse(weather, DEFAULT_WEATHER))>>
       ELSE << >>

\* OptionalDetailsForm.handleSave -> Wardrobe.handleSaveDetails; a name that
\* fails validateItemName stops in the form (lines 19-25 of the form).
HandleSaveDetails ==
  /\ store.openModal = "details"
  /\ \E name \in DetailsNames, weather \in DetailsWeathers :
       /\ Trim(name) = Empty \/ validateItemName(name)
       /\ Step("handleSaveDetails",
               submitDetailsStore(store, w, TRUE),
               submitDetailsPage(w, TRUE), detail, wConfirm,
               tasks \o submitDetailsCalls(store, w, TRUE, Trim(name), weather))
       /\ Started(UserCalls(submitDetailsCalls(store, w, TRUE, Trim(name), weather)))
  /\ UNCHANGED <<db, nextFile, procCalls>>

\* OptionalDetailsForm.handleSkip -> Wardrobe.handleSkipDetails
HandleSkipDetails ==
  /\ store.openModal = "details"
  /\ Step("handleSkipDetails",
          submitDetailsStore(store, w, FALSE),
          submitDetailsPage(w, FALSE), detail, wConfirm,
          tasks \o submitDetailsCalls(store, w, FALSE, Empty, Empty))
  /\ Started(UserCalls(submitDetailsCalls(store, w, FALSE, Empty, Empty)))
  /\ UNCHANGED <<db, nextFile, procCalls>>

\* useWardrobeHandlers.handleDetailsModalClose (81-92): the dialog's onClose
HandleDetailsModalClose ==
  /\ store.openModal = "details"
  /\ IF store.currentItemId # 0
     THEN Step("handleDetailsModalClose", storeBegin(store), w, detail, wConfirm,
               Append(tasks, Task("delete", "detailsClose", 0, store.currentItemId,
                                  Empty, Empty)))
     ELSE Step("handleDetailsModalClose",
               setCurrentItemId(setOpenModal(store, "null"), 0), w, detail,
               wConfirm, tasks)
  /\ Started(IF store.currentItemId # 0 THEN 1 ELSE 0)
  /\ UNCHANGED <<db, nextFile, procCalls>>

(***************************************************************************)
(* Store calls resolve; the code awaiting each call continues.             *)
(***************************************************************************)
\* After `await fetchItems()`: fetchItems never rejects, so each caller goes
\* on as after a success.
\* Variant for C15: the code after the refresh leaves the item selected.
afterFetchKeepsSelection(ws, cont) ==
  IF cont \in {"saveEditFetch", "deleteFetch", "createFetch"}
  THEN showSuccess([ws EXCEPT !.uploadState = "idle"], "Done")
  ELSE ws

afterFetch(ws, cont) ==
  CASE cont = "saveEditFetch" ->
         showSuccess([ws EXCEPT !.uploadState = "idle"], "Item updated successfully!")
    [] cont = "deleteFetch" ->
         showSuccess([ws EXCEPT !.selectedItem = NullItem, !.uploadState = "idle"],
                     "Item deleted successfully!")
    [] cont = "createFetch" ->
         showSuccess([ws EXCEPT !.uploadState = "idle", !.uploadedFile = 0,
                                !.processedImageUrl = 0],
                     "Item saved successfully!")
    [] OTHER -> ws

ListResolved ==
  \E i \in InFlight("list") :
    /\ Step("listResolved", fetchItemsResolved(store, Envelope(db.items)),
            afterFetch(w, tasks[i].cont), detail, wConfirm, RemoveAt(tasks, i))
    /\ UNCHANGED <<db, nextFile, procCalls, calls>>

ListRejected ==
  \E i \in InFlight("list") :
    /\ Step("listRejected", fetchItemsRejected(store),
            afterFetch(w, tasks[i].cont), detail, wConfirm, RemoveAt(tasks, i))
    /\ UNCHANGED <<db, nextFile, procCalls, calls>>

\* The fetchItems() a handler awaits after its mutation succeeded
fetchAfter(cont) ==
  CASE cont = "saveEdit" -> <<ListTask("saveEditFetch")>>
    [] cont = "delete" -> <<ListTask("deleteFetch")>>
    [] cont = "saveDetails" -> <<ListTask("createFetch")>>
    [] OTHER -> << >>

\* What the store holds once the awaiting code has run up to its next await
\* (or its end), after a mutation that succeeded
afterMutationStore(st, cont, newId) ==
  CASE cont = "saveDetails" -> storeBegin(setCurrentItemId(st, newId))
    [] cont \in {"saveEdit", "delete"} -> storeBegin(st)
    [] cont \in {"detailsUpdate", "detailsClose"} ->
         setCurrentItemId(setOpenModal(st, "null"), 0)
    [] OTHER -> st

\* ... and after a mutation that failed (the catch blocks)
afterFailureStore(st, cont) ==
  CASE cont = "saveDetails" -> setOpenModal(st, "null")
    [] cont \in {"detailsUpdate", "detailsClose"} ->
         setCurrentItemId(setOpenModal(st, "null"), 0)
    [] OTHER -> st

afterFailurePage(ws, cont) ==
  CASE cont = "saveEdit" ->
         showError([ws EXCEPT !.uploadState = "idle"], "Failed to update item")
    [] cont = "delete" ->
         showError([ws EXCEPT !.uploadState = "idle"], "Failed to delete item.")
    [] cont = "saveDetails" ->
         showError([ws EXCEPT !.uploadState = "idle"], "Failed to save item")
    [] OTHER -> ws

CreateResolved ==
  \E i \in InFlight("create") :
    LET t == tasks[i]
        raw == RawItem(db.nextId, t.name, t.weather, ImageOf(t.file))
    IN  /\ Step("createResolved",
                afterMutationStore(addItemResolved(store, raw), t.cont, db.nextId),
                w, detail, wConfirm, RemoveAt(tasks, i) \o fetchAfter(t.cont))
        /\ db' = dbCreate(db, t)
        /\ UNCHANGED <<nextFile, procCalls, calls>>

UpdateResolved ==
  \E i \in InFlight("update") :
    LET t == tasks[i]
    IN  /\ HasItem(db.items, t.id)
        /\ Step("updateResolved",
                afterMutationStore(
                  updateItemResolved(store, t.id, FindItem(dbUpdate(db, t).items, t.id)),
                  t.cont, 0),
                w, detail, wConfirm, RemoveAt(tasks, i) \o fetchAfter(t.cont))
        /\ db' = dbUpdate(db, t)
        /\ UNCHANGED <<nextFile, procCalls, calls>>

DeleteResolved ==
  \E i \in InFlight("delete") :
    LET t == tasks[i]
    IN  /\ HasItem(db.items, t.id)
        /\ Step("deleteResolved",
                afterMutationStore(removeItemResolved(store, t.id), t.cont, 0),
                w, detail, wConfirm, RemoveAt(tasks, i) \o fetchAfter(t.cont))
        /\ db' = dbDelete(db, t.id)
        /\ UNCHANGED <<nextFile, procCalls, calls>>

MutationRejected(ev, op) ==
  \E i \in InFlight(op) :
    LET t == tasks[i]
    IN  /\ Step(ev, afterFailureStore(mutationRejected(store), t.cont),
                afterFailurePage(w, t.cont), detail, wConfirm, RemoveAt(tasks, i))
        /\ UNCHANGED <<db, nextFile, procCalls, calls>>

CreateRejected == MutationRejected("createRejected", "create")
UpdateRejected == MutationRejected("updateRejected", "update")
DeleteRejected == MutationRejected("deleteRejected", "delete")

Next ==
  \/ HandleAddClick \/ HandleCloseUpload \/ HandleApplyUpload \/ HandleFilesRejected
  \/ HandleRetryProcessing \/ HandleUploadDifferent \/ HandleCancelUpload
  \/ HandleConfirmAction \/ HandleCancelAction \/ HandleUploadDifferentAction
  \/ ProcessResolved \/ ProcessNoUrl \/ ProcessRejected
  \/ HandleCardClick \/ HandleBackClick \/ HandleEdit \/ TypeName
  \/ HandleWeatherChange \/ HandleImageChange \/ HandleImageRejected
  \/ HandleCancel \/ HandleSave
  \/ DetailConfirmClose \/ DetailConfirmDiscard \/ DetailConfirmError
  \/ DetailConfirmSave
  \/ HandleDelete \/ PageConfirmClose \/ PageConfirmDelete
  \/ HandleSaveDetails \/ HandleSkipDetails \/ HandleDetailsModalClose
  \/ ListResolved \/ ListRejected
  \/ CreateResolved \/ CreateRejected
  \/ UpdateResolved \/ UpdateRejected
  \/ DeleteResolved \/ DeleteRejected

Spec == Init /\ [][Next]_vars

(***************************************************************************)
(* The page once a first new item has been saved through the upload flow:  *)
(* the state the page is in after Add, Apply, a processed image, Confirm,  *)
(* Save or Skip in the details dialog and the list refresh.  The item's id *)
(* stays in currentItemId (useWardrobeHandlers.handleApply, line 24).      *)
(* Three more calls may be started from here.                              *)
(***************************************************************************)
InitSecondUpload ==
  /\ db \in {dbCreate([items |-> c, nextId |-> Len(c) + 1],
                      Task("create", "saveDetails", 1, 0, Empty, Empty)) :
               c \in InitialCatalogs}
  /\ store = setCurrentItemId(fetchItemsResolved(InitStore, Envelope(db.items)),
                              db.nextId - 1)
  /\ w = showSuccess(InitWardrobe, "Item saved successfully!")
  /\ detail = Unmounted
  /\ wConfirm = ClosedConfirm
  /\ tasks = << >>
  /\ nextFile = 2
  /\ procCalls = [f \in 1..MaxFiles |-> IF f = 1 THEN 1 ELSE 0]
  /\ calls = MaxCalls - 3
  /\ lastEvent = "listResolved"
  /\ fnIn = NoFn
  /\ fnOut = NoFn
  /\ dz = DropzoneUnmounted
  /\ objectUrls = NoObjectUrls
  /\ registry = InitRegistry
  /\ auth = AuthCreated(0)

SpecSecondUpload == InitSecondUpload /\ [][Next]_vars

(***************************************************************************)
(* The store on its own: its four operations called directly (as the page  *)
(* does from initFetch and from its handlers, and as any other consumer of *)
(* the module-level store can), in any order and overlapping.              *)
(***************************************************************************)
InitStoreAlone ==
  /\ store = InitStore
  /\ w = InitWardrobe
  /\ detail = Unmounted
  /\ wConfirm = ClosedConfirm
  /\ tasks = << >>
  /\ db \in {[items |-> c, nextId |-> Len(c) + 1] : c \in InitialCatalogs}
  /\ nextFile = 1
  /\ procCalls = [f \in 1..MaxFiles |-> 0]
  /\ calls = 0
  /\ lastEvent = "create"
  /\ fnIn = NoFn
  /\ fnOut = NoFn
  /\ dz = DropzoneUnmounted
  /\ objectUrls = NoObjectUrls
  /\ registry = InitRegistry
  /\ auth = AuthCreated(0)

StoreCall(ev, task) ==
  /\ Len(tasks) < MaxInFlight
  /\ Step(ev, storeBegin(store), w, detail, wConfirm, Append(tasks, task))
  /\ Started(1)
  /\ UNCHANGED <<db, nextFile, procCalls>>

\* fetchItems()
CallFetchItems == StoreCall("fetchItems", ListTask("caller"))

\* addItem(imageFile, itemName, weather)
CallAddItem ==
  \E name \in DetailsNames, weather \in DetailsWeathers :
    StoreCall("addItem", Task("create", "caller", 1, 0, name, weather))

\* updateItem(id, { itemName, weather })
CallUpdateItem ==
  \E i \in 1..Len(store.items), name \in {Cd, Untitled} :
    StoreCall("updateItem", Task("update", "caller", 0, store.items[i].id, name, Untitled))

\* removeItem(id)
CallRemoveItem ==
  \E i \in 1..Len(store.items) :
    StoreCall("removeItem", Task("delete", "caller", 0, store.items[i].id, Empty, Empty))

NextStoreAlone ==
  \/ CallFetchItems \/ CallAddItem \/ CallUpdateItem \/ CallRemoveItem
  \/ ListResolved \/ ListRejected
  \/ CreateResolved \/ CreateRejected
  \/ UpdateResolved \/ UpdateRejected
  \/ DeleteResolved \/ DeleteRejected

SpecStore == InitStoreAlone /\ [][NextStoreAlone]_vars

(***************************************************************************)
(* ClothingDropzone on its own, inside the upload dialog of the page: the  *)
(* dialog mounts it when it opens and unmounts it when it closes.          *)
(***************************************************************************)
InitDropzone ==
  /\ store = InitStore
  /\ w = InitWardrobe
  /\ detail = Unmounted
  /\ wConfirm = ClosedConfirm
  /\ tasks = << >>
  /\ db = [items |-> << >>, nextId |-> 1]
  /\ nextFile = 1
  /\ procCalls = [f \in 1..MaxFiles |-> 0]
  /\ calls = 0
  /\ lastEvent = "none"
  /\ fnIn = NoFn
  /\ fnOut = NoFn
  /\ dz = DropzoneUnmounted
  /\ objectUrls = NoObjectUrls
  /\ registry = InitRegistry
  /\ auth = AuthCreated(0)

DropzoneStep(ev, d, urls) ==
  /\ dz' = d
  /\ objectUrls' = urls
  /\ lastEvent' = ev
  /\ UNCHANGED <<store, w, detail, wConfirm, tasks, db, nextFile, procCalls, calls,
                 fnIn, fnOut, registry, auth>>

\* The effect of lines 16-18, run after a render with new uploadedFiles
syncFilesRef(d) == [d EXCEPT !.filesRef = d.uploadedFiles]

\* The cleanup of the unmount effect (108-120)
unmountCleanup(d, urls) == IF d.appliedRef THEN urls ELSE revokeAll(urls, d.filesRef)

\* handleAddClick of the page opens the dialog
DropzoneMount ==
  /\ ~dz.mounted
  /\ DropzoneStep("dropzoneMount", DropzoneMounted, objectUrls)

\* handleDrop (26-64) with one valid file
HandleDrop ==
  /\ dz.mounted
  /\ \E u \in 1..MaxUrls : ~objectUrls[u].created
  /\ \E file \in PickedFiles : validateImageFile(file).isValid
  /\ LET u == FreshUrl(objectUrls)
     IN  DropzoneStep("handleDrop",
                      syncFilesRef([dz EXCEPT !.uploadedFiles = <<u>>,
                                              !.appliedRef = FALSE]),
                      createObjectURL(revokeAll(objectUrls, dz.filesRef), u))

\* handleDrop with a file that fails validateImageFile (lines 40-43)
HandleDropRejected ==
  /\ dz.mounted
  /\ \E file \in PickedFiles : ~validateImageFile(file).isValid
  /\ DropzoneStep("handleDropRejected", dz, objectUrls)

\* handleDelete (66-75) of a listed file
HandleDropzoneDelete ==
  /\ dz.mounted
  /\ \E i \in 1..Len(dz.uploadedFiles) :
       DropzoneStep("handleDelete",
                    syncFilesRef([dz EXCEPT !.uploadedFiles = RemoveAt(@, i)]),
                    revokeAll(objectUrls, <<dz.uploadedFiles[i]>>))

\* handleApply (77-82): onApply = Wardrobe.handleApplyUpload closes the
\* dialog, so the dropzone unmounts.
HandleDropzoneApply ==
  /\ dz.mounted
  /\ Len(dz.uploadedFiles) > 0
  /\ LET applied == [dz EXCEPT !.appliedRef = TRUE]
     IN  DropzoneStep("handleApply", [applied EXCEPT !.mounted = FALSE],
                      unmountCleanup(applied, objectUrls))

\* handleCancelClick (84-95): onCancel = handlers.handleCancel closes the
\* dialog; the dropzone renders once more with no files, then unmounts.
HandleCancelClick ==
  /\ dz.mounted
  /\ LET cleared == syncFilesRef([dz EXCEPT !.uploadedFiles = << >>])
         urls == IF dz.appliedRef THEN objectUrls ELSE revokeAll(objectUrls, dz.filesRef)
     IN  DropzoneStep("handleCancelClick", [cleared EXCEPT !.mounted = FALSE],
                      unmountCleanup(cleared, urls))

\* The dialog's close button (Wardrobe.handleCloseUpload): unmount only
DropzoneUnmount ==
  /\ dz.mounted
  /\ DropzoneStep("dropzoneUnmount", [dz EXCEPT !.mounted = FALSE],
                  unmountCleanup(dz, objectUrls))

NextDropzone ==
  \/ DropzoneMount \/ HandleDrop \/ HandleDropRejected \/ HandleDropzoneDelete
  \/ HandleDropzoneApply \/ HandleCancelClick \/ DropzoneUnmount

SpecDropzone == InitDropzone /\ [][NextDropzone]_vars

(***************************************************************************)
(* hasChanges on its own, over every item and edit state of a bounded set. *)
(***************************************************************************)
\* Names and weathers with "Untitled", the empty string and padded variants.
FnNames ==
  {Empty, <<" ">>, Untitled, Pad(Untitled), PadEnd(Untitled), Cd, Pad(Cd), Ab}
FnWeathers == {Empty, Untitled, Spring, PadEnd(Spring), Summer}

InitHasChanges ==
  /\ store = InitStore
  /\ w = InitWardrobe
  /\ detail = Unmounted
  /\ wConfirm = ClosedConfirm
  /\ tasks = << >>
  /\ db = [items |-> << >>, nextId |-> 1]
  /\ nextFile = 1
  /\ procCalls = [f \in 1..MaxFiles |-> 0]
  /\ calls = 0
  /\ lastEvent = "none"
  /\ fnIn \in [fn : {"hasChanges"},
               item : [name : FnNames, weather : FnWeathers],
               editState : [name : FnNames, weather : FnWeathers, image : {0, 1}]]
  /\ fnOut = NoFn
  /\ dz = DropzoneUnmounted
  /\ objectUrls = NoObjectUrls
  /\ registry = InitRegistry
  /\ auth = AuthCreated(0)

ApplyHasChanges ==
  /\ fnIn.fn = "hasChanges"
  /\ fnOut = NoFn
  /\ fnOut' = [fn |-> "hasChanges",
               value |-> hasChanges(TRUE, fnIn.item, fnIn.editState)]
  /\ UNCHANGED <<store, w, detail, wConfirm, tasks, db, nextFile, procCalls, calls,
                 lastEvent, fnIn, dz, objectUrls, registry, auth>>

SpecHasChanges == InitHasChanges /\ [][ApplyHasChanges]_vars

(***************************************************************************)
(* The response unwrapping of fetchItems and transformItemsForDisplay on   *)
(* their own, over bounded sets of responses and raw items.                *)
(***************************************************************************)
\* Lists of at most two raw items of the service.
FnLists ==
  LET a == RawItem(1, Ab, Spring, 1)
      b == RawItem(2, Cd, Summer, 2)
  IN  {<< >>, <<a>>, <<b>>, <<a, a>>, <<a, b>>, <<b, a>>, <<b, b>>}

\* A bare array, or an object with any of items and data present.
FnResponses ==
  {ListResponse(TRUE, l, FALSE, << >>, FALSE, << >>) : l \in FnLists}
    \cup {ListResponse(FALSE, << >>, FALSE, << >>, FALSE, << >>)}
    \cup {ListResponse(FALSE, << >>, TRUE, l, FALSE, << >>) : l \in FnLists}
    \cup {ListResponse(FALSE, << >>, FALSE, << >>, TRUE, l) : l \in FnLists}
    \cup {ListResponse(FALSE, << >>, TRUE, l[1], TRUE, l[2]) : l \in FnLists \X FnLists}

\* Raw items with every probed field present or absent, each field with a
\* value of its own.
FnRawItems ==
  [ id : {0, 1}, _id : {0, 2},
    item_name : {Empty, Ab}, itemName : {Empty, Cd}, name : {Empty, Pad(Ab)},
    weather : {Empty, Spring}, season : {Empty, Summer}, item_weather : {Empty, Fall},
    image_url : {0, 1}, original_image_url : {0, 2}, image : {0, 3}, preview : {0, 4} ]

FnItemsInputs ==
  {NotArray, Array(<< >>)}
    \cup {Array(<<item>>) : item \in FnRawItems}
    \cup {Array(<<l[1], l[2]>>) : l \in {i \in FnRawItems : i.id = 1 /\ i._id = 0}
                                       \X {RawItem(2, Empty, Empty, 0)}}

InitFunctions ==
  /\ store = InitStore
  /\ w = InitWardrobe
  /\ detail = Unmounted
  /\ wConfirm = ClosedConfirm
  /\ tasks = << >>
  /\ db = [items |-> << >>, nextId |-> 1]
  /\ nextFile = 1
  /\ procCalls = [f \in 1..MaxFiles |-> 0]
  /\ calls = 0
  /\ lastEvent = "none"
  /\ \/ fnIn \in [fn : {"fetchItems"}, response : FnResponses]
     \/ fnIn \in [fn : {"transformItemsForDisplay"}, items : FnItemsInputs]
  /\ fnOut = NoFn
  /\ dz = DropzoneUnmounted
  /\ objectUrls = NoObjectUrls
  /\ registry = InitRegistry
  /\ auth = AuthCreated(0)

\* fetchItems, lines 28-35: the list taken out of the response
ApplyRawItemsOf ==
  /\ fnIn.fn = "fetchItems"
  /\ fnOut = NoFn
  /\ fnOut' = [fn |-> "fetchItems", value |-> rawItemsOf(fnIn.response)]
  /\ UNCHANGED <<store, w, detail, wConfirm, tasks, db, nextFile, procCalls, calls,
                 lastEvent, fnIn, dz, objectUrls, registry, auth>>

ApplyTransformItemsForDisplay ==
  /\ fnIn.fn = "transformItemsForDisplay"
  /\ fnOut = NoFn
  /\ fnOut' = [fn |-> "transformItemsForDisplay",
               value |-> transformItemsForDisplay(fnIn.items)]
  /\ UNCHANGED <<store, w, detail, wConfirm, tasks, db, nextFile, procCalls, calls,
                 lastEvent, fnIn, dz, objectUrls, registry, auth>>

NextFunctions == ApplyRawItemsOf \/ ApplyTransformItemsForDisplay

SpecFunctions == InitFunctions /\ [][NextFunctions]_vars

(***************************************************************************)
(* The confirmation dialog (useModal with ConfirmModal) on its own, with   *)
(* the dialog types and callbacks the page and the detail view pass.       *)
(***************************************************************************)
ConfirmTypes == {"delete", "error", "unsaved-changes", "save-changes"}
ConfirmCallbacks == {"null", "confirmDelete", "noop", "discardEdit", "saveEdit"}

InitConfirm ==
  /\ store = InitStore
  /\ w = InitWardrobe
  /\ detail = Unmounted
  /\ wConfirm = ClosedConfirm
  /\ tasks = << >>
  /\ db = [items |-> << >>, nextId |-> 1]
  /\ nextFile = 1
  /\ procCalls = [f \in 1..MaxFiles |-> 0]
  /\ calls = 0
  /\ lastEvent = "none"
  /\ fnIn = NoFn
  /\ fnOut = NoFn
  /\ dz = DropzoneUnmounted
  /\ objectUrls = NoObjectUrls
  /\ registry = InitRegistry
  /\ auth = AuthCreated(0)

ConfirmStep(ev, confirmModal, in, out) ==
  /\ wConfirm' = confirmModal
  /\ lastEvent' = ev
  /\ fnIn' = in
  /\ fnOut' = out
  /\ UNCHANGED <<store, w, detail, tasks, db, nextFile, procCalls, calls, dz, objectUrls, registry, auth>>

\* fnIn keeps the arguments of the latest openConfirmModal and the callback
\* that was pending when it was called ("null" when none was), fnOut the
\* callbacks the last step invoked.
OpenConfirmModal ==
  \E type \in ConfirmTypes, data \in 0..MaxFiles, onConfirm \in ConfirmCallbacks :
    ConfirmStep("openConfirmModal", openConfirmModal(type, data, onConfirm),
                [fn |-> "openConfirmModal", type |-> type, data |-> data,
                 onConfirm |-> onConfirm, replaced |-> wConfirm.onConfirm],
                [fn |-> "openConfirmModal", invoked |-> << >>])

\* The dialog's cancel button, escape key or backdrop: onClose
CloseConfirmModal ==
  ConfirmStep("closeConfirmModal", closeConfirmModal, fnIn,
              [fn |-> "closeConfirmModal", invoked |-> << >>])

\* The dialog's confirm button, also while the dialog is closing
ConfirmModalConfirm ==
  ConfirmStep("confirmModalConfirm", ConfirmModalHandleConfirm(wConfirm).confirmModal,
              fnIn,
              [fn |-> "handleConfirm",
               invoked |-> ConfirmModalHandleConfirm(wConfirm).invoked])

NextConfirm == OpenConfirmModal \/ CloseConfirmModal \/ ConfirmModalConfirm

SpecConfirm == InitConfirm /\ [][NextConfirm]_vars

(***************************************************************************)
(* Properties.                                                             *)
(***************************************************************************)
\* A field after trimming, with "Untitled" and the empty string taken as one.
Normalized(value) == normalizeValue(Trim(value))

\* The cached item the detail view is about.
CachedItem == FindItem(store.items, w.selectedItem.id)

\* The edit form holds what the cache holds, up to normalization, and no image.
EditEqualsCached ==
  /\ Normalized(detail.editState.name) = Normalized(CachedItem.name)
  /\ Normalized(detail.editState.weather) = Normalized(CachedItem.weather)
  /\ detail.editState.image = 0

Editing ==
  /\ detail.mounted
  /\ detail.isEditing
  /\ HasItem(store.items, w.selectedItem.id)

\* C1: saving an edit that equals the persisted item after normalization and
\* has no pending image issues no update call and never enters "updating".
C1_NoUpdateWhenUnchanged ==
  [][(Editing /\ EditEqualsCached /\ lastEvent' \in {"handleSave", "detailConfirmSave"})
       => /\ tasks' = tasks
          /\ w'.uploadState # "updating"]_vars

\* C2: when the typed name or weather differs, after normalization, from the
\* cached item's, pressing Save goes on to the save confirmation that issues
\* the update; the edit is not dropped.
C2_SaveKeepsTypedEdit ==
  [][(/\ Editing
      /\ ~ModalOpen
      /\ \/ Normalized(detail.editState.name) # Normalized(CachedItem.name)
         \/ Normalized(detail.editState.weather) # Normalized(CachedItem.weather)
      /\ ~saveNameInvalid(detail.editState)
      /\ lastEvent' = "handleSave")
       => detail'.confirm = "save-changes"]_vars

\* C3: hasChanges is false for every whitespace-only edit and for every
\* "Untitled"/empty toggle without a pending image.
C3_HasChangesNormalized ==
  (fnOut.fn = "hasChanges")
    => (fnOut.value =
          ~(/\ fnIn.editState.image = 0
            /\ Normalized(fnIn.editState.name) = Normalized(fnIn.item.name)
            /\ Normalized(fnIn.editState.weather) = Normalized(fnIn.item.weather)))

\* C4: retryCount stays within 0..2; at 2 Retry is not offered and the handler
\* issues no call; no file is processed more than three times.
C4_RetryCap ==
  /\ w.retryCount \in 0..2
  /\ (w.retryCount = 2 => ~RetryOffered(w.retryCount) /\ retryReturnsEarly(w))
  /\ \A f \in 1..MaxFiles : procCalls[f] <= 3

C4_Witness ==
  /\ w.retryCount = 2
  /\ w.uploadState = "error"
  /\ \E f \in 1..MaxFiles : procCalls[f] = 3

\* C5: every submission of a new file enters processing with retryCount 0.
C5_SubmitResetsRetryCount ==
  [][(lastEvent' \in {"handleApplyUpload", "handleProcessEditImage"}
      /\ w'.uploadState = "processing")
       => w'.retryCount = 0]_vars

\* C6: Retry in the error state with retryCount < 2 moves to processing,
\* adds one to retryCount and issues a processing call.
C6_RetryResubmits ==
  [][(w.uploadState = "error" /\ w.retryCount < 2 /\ lastEvent' = "handleRetryProcessing")
       => /\ w'.uploadState = "processing"
          /\ w'.retryCount = w.retryCount + 1
          /\ Len(tasks') = Len(tasks) + 1
          /\ tasks'[Len(tasks')].op = "process"
          /\ tasks'[Len(tasks')].file # 0]_vars

\* C7: a processing call that resolves with a processed image takes the
\* workflow from processing to confirming and shows a success notification.
C7_SuccessConfirms ==
  [][lastEvent' = "processResolved"
       => /\ w.uploadState = "processing"
          /\ w'.uploadState = "confirming"
          /\ w'.toast = [isVisible |-> TRUE, type |-> "success"]]_vars

C7_Witness ==
  /\ lastEvent = "processResolved"
  /\ w.retryCount > 0
  /\ w.uploadState = "confirming"

\* C8: Cancel at the confirmation step returns to idle with the session
\* discarded; no call is issued and the cache is unchanged.
C8_CancelDiscards ==
  [][lastEvent' = "handleCancelAction"
       => /\ w.uploadState = "confirming"
          /\ w'.uploadState = "idle"
          /\ w'.uploadedFile = 0
          /\ w'.processedImageUrl = 0
          /\ w'.retryCount = 0
          /\ tasks' = tasks
          /\ db' = db
          /\ store'.items = store.items]_vars

C8_Witness ==
  /\ lastEvent = "handleCancelAction"
  /\ w.uploadState = "idle"
  /\ tasks = << >>
  /\ \E f \in 1..MaxFiles : procCalls[f] >= 2

\* C9: fetchItems invoked while a list request is pending issues no second
\* list call.
C9_OneListCall ==
  [][(lastEvent' = "fetchItems" /\ InFlight("list") # {}) => tasks' = tasks]_vars

\* C10: a failed remote call leaves the items cache as it was.
C10_FailureKeepsCache ==
  [][lastEvent' \in {"listRejected", "createRejected", "updateRejected", "deleteRejected"}
       => store'.items = store.items]_vars

\* C11: a failed remote call ends the store operation in a rejected outcome,
\* so its caller takes its failure path: after a failed list request the page
\* does not show a success notification.
C11_FailureReachesCaller ==
  [][lastEvent' = "listRejected"
       => w'.toast # [isVisible |-> TRUE, type |-> "success"]]_vars

\* C12: a successful updateItem(id, ...) replaces the entry with that id by
\* the normalized response of the service and leaves every other entry as it
\* was; a successful addItem appends exactly the normalized response.
C12_ReplaceNotMerge ==
  [][/\ lastEvent' = "updateResolved"
          => \E i \in InFlight("update") :
               /\ tasks' = RemoveAt(tasks, i)
               /\ Len(store'.items) = Len(store.items)
               /\ \A k \in 1..Len(store.items) :
                    store'.items[k] =
                      IF store.items[k].id = tasks[i].id
                      THEN transformItem(FindItem(db'.items, tasks[i].id))
                      ELSE store.items[k]
     /\ lastEvent' = "createResolved"
          => store'.items =
               Append(store.items, transformItem(db'.items[Len(db'.items)]))]_vars

C12_Witness ==
  /\ lastEvent = "updateResolved"
  /\ Len(store.items) = 2
  /\ store.items[1].name = Cd
  /\ store.items[2].name = Untitled

\* C13: a file that fails the type/size check, dropped in the upload dialog
\* or picked in edit mode, starts no remote call and leaves the workflow
\* state as it was; the check yields one of the three reasons, and for a
\* 12 MB JPEG it yields file-too-large.
C13_RejectedFileNoCall ==
  [][lastEvent' \in {"handleFilesRejected", "handleImageRejected"}
       => /\ tasks' = tasks
          /\ procCalls' = procCalls
          /\ calls' = calls
          /\ w'.uploadState = w.uploadState
          /\ w'.uploadedFile = w.uploadedFile
          /\ w'.processedImageUrl = w.processedImageUrl
          /\ w'.retryCount = w.retryCount
          /\ ~fnOut'.isValid
          /\ fnOut'.code \in {"no-file", "file-invalid-type", "file-too-large"}
          /\ (fnIn'.file = TwelveMbJpeg => fnOut'.code = "file-too-large")]_vars

C13_Witness ==
  /\ lastEvent = "handleImageRejected"
  /\ fnIn.file = TwelveMbJpeg
  /\ fnOut.code = "file-too-large"
  /\ detail.confirm = "error"

\* C14: every object URL the dropzone created is revoked exactly once: never
\* twice, and once the dropzone is unmounted none is left unrevoked.
C14_ReleasedExactlyOnce ==
  /\ \A u \in 1..MaxUrls : objectUrls[u].revoked <= 1
  /\ ~dz.mounted =>
       \A u \in 1..MaxUrls : objectUrls[u].created => objectUrls[u].revoked = 1

\* C15: once the delete confirmation is accepted the workflow is "deleting";
\* when the delete call succeeds the item leaves the cache; and when the
\* refresh that follows settles, the workflow is idle, no item is selected,
\* the list view is shown and the cache holds no item the service deleted.
C15_DeleteFlow ==
  [][/\ (lastEvent' = "pageConfirmDelete" /\ wConfirm.data # 0)
          => /\ w'.uploadState = "deleting"
             /\ \E i \in 1..Len(tasks') :
                  tasks'[i].op = "delete" /\ tasks'[i].id = wConfirm.data
     /\ (lastEvent' = "deleteResolved" /\ w.uploadState = "deleting")
          => /\ w'.uploadState = "deleting"
             /\ \A i \in InFlight("delete") : ~HasItem(store'.items, tasks[i].id)
     /\ (lastEvent' \in {"listResolved", "listRejected"} /\ w.uploadState = "deleting")
          => /\ w'.uploadState = "idle"
             /\ ~w'.selectedItem.sel
             /\ detail' = Unmounted
             /\ View(store', w') \in {"grid", "empty"}
             /\ \A k \in 1..Len(store'.items) : HasItem(db.items, store'.items[k].id)]_vars

C15_Witness ==
  /\ lastEvent = "listResolved"
  /\ db.items = << >>
  /\ store.items = << >>
  /\ w.uploadState = "idle"
  /\ ~w.selectedItem.sel
  /\ w.toast = [isVisible |-> TRUE, type |-> "success"]

\* C16: whenever a create, update or delete call rejects, the workflow is
\* idle afterwards and an error notification is shown.
C16_MutationFailureShown ==
  [][lastEvent' \in {"createRejected", "updateRejected", "deleteRejected"}
       => /\ w'.uploadState = "idle"
          /\ w'.toast = [isVisible |-> TRUE, type |-> "error"]]_vars

\* C17: from the error state, Upload Different Image and Return to Wardrobe
\* both end in idle with no source file, no processed image and retryCount 0.
C17_ErrorExitsReset ==
  [][lastEvent' \in {"handleUploadDifferent", "handleCancelUpload"}
       => /\ w.uploadState = "error"
          /\ w'.uploadState = "idle"
          /\ w'.uploadedFile = 0
          /\ w'.processedImageUrl = 0
          /\ w'.retryCount = 0]_vars

C17_Witness ==
  /\ lastEvent = "handleUploadDifferent"
  /\ store.openModal = "upload"
  /\ w.uploadState = "idle"
  /\ w.retryCount = 0
  /\ \E f \in 1..MaxFiles : procCalls[f] = 3


\* C18: fetchItems takes the item list out of the response by priority: the
\* data wrapper first, then a bare array, then the items wrapper; a response
\* that matches more than one shape yields the list of the higher one.
C18_ShapePriority ==
  fnOut.fn = "fetchItems" =>
    fnOut.value = IF ~fnIn.response.isArray /\ fnIn.response.hasData
                    THEN fnIn.response.data
                  ELSE IF fnIn.response.isArray THEN fnIn.response.array
                  ELSE IF fnIn.response.hasItems THEN fnIn.response.items
                  ELSE << >>

\* The first field of a raw item, in the given order, that is present.
FirstPresent(item, fields, absent, default) ==
  IF \E k \in 1..Len(fields) : item[fields[k]] # absent
  THEN item[fields[CHOOSE k \in 1..Len(fields) :
                     /\ item[fields[k]] # absent
                     /\ \A j \in 1..(k - 1) : item[fields[j]] = absent]]
  ELSE default

\* The display items are built field by field with the given probe orders.
DisplayedBy(imageFields, nameFields, weatherFields) ==
  fnOut.fn = "transformItemsForDisplay" =>
    IF ~fnIn.items.isArray THEN fnOut.value = << >>
    ELSE /\ Len(fnOut.value) = Len(fnIn.items.elems)
         /\ \A i \in 1..Len(fnOut.value) :
              LET item == fnIn.items.elems[i]
              IN  /\ fnOut.value[i].image = FirstPresent(item, imageFields, 0, 0)
                  /\ fnOut.value[i].name = FirstPresent(item, nameFields, Empty, Untitled)
                  /\ fnOut.value[i].weather =
                       FirstPresent(item, weatherFields, Empty, Untitled)

\* C19 as stated: transformItemsForDisplay takes the image from the first
\* present of image_url, original_image_url, image, preview, the name from
\* item_name before name, the weather from weather before season, "Untitled"
\* where none is present, and gives the empty list for a non-array.
C19_DisplayFieldsAsStated ==
  DisplayedBy(<<"image_url", "original_image_url", "image", "preview">>,
              <<"item_name", "name">>, <<"weather", "season">>)

\* C19, amended: as above, with the name taken from item_name, then itemName,
\* then name, and the weather from weather, then season, then item_weather.
C19_DisplayFields ==
  DisplayedBy(<<"image_url", "original_image_url", "image", "preview">>,
              <<"item_name", "itemName", "name">>,
              <<"weather", "season", "item_weather">>)

C19_Witness ==
  /\ fnOut.fn = "transformItemsForDisplay"
  /\ fnIn.items.isArray
  /\ Len(fnIn.items.elems) = 1
  /\ fnIn.items.elems[1].item_name = Empty
  /\ fnIn.items.elems[1].itemName = Cd
  /\ fnIn.items.elems[1].name = Pad(Ab)
  /\ fnIn.items.elems[1].weather = Empty
  /\ fnIn.items.elems[1].season = Empty
  /\ fnIn.items.elems[1].item_weather = Fall
  /\ fnIn.items.elems[1].image_url = 0
  /\ fnIn.items.elems[1].original_image_url = 2
  /\ fnOut.value = <<[image |-> 2, name |-> Cd, weather |-> Fall,
                      id |-> fnIn.items.elems[1].id]>>


\* C20: confirming invokes the callback stored by the latest openConfirmModal
\* exactly once and leaves the slot empty (closed, no type, no data, no
\* callback); closing invokes nothing and leaves the slot empty; confirming
\* an empty slot invokes nothing.
C20_ConfirmOnce ==
  [][/\ lastEvent' = "confirmModalConfirm" =>
          /\ wConfirm' = [isOpen |-> FALSE, type |-> "null", data |-> 0,
                          onConfirm |-> "null"]
          /\ fnOut'.invoked = IF wConfirm.isOpen /\ fnIn.onConfirm # "null"
                              THEN <<fnIn.onConfirm>> ELSE << >>
     /\ lastEvent' = "closeConfirmModal" =>
          /\ wConfirm' = [isOpen |-> FALSE, type |-> "null", data |-> 0,
                          onConfirm |-> "null"]
          /\ fnOut'.invoked = << >>]_vars

C20_Witness ==
  /\ lastEvent = "confirmModalConfirm"
  /\ fnIn.fn = "openConfirmModal"
  /\ fnIn.type = "save-changes"
  /\ fnIn.onConfirm = "saveEdit"
  /\ fnOut.invoked = <<"saveEdit">>
  /\ ~wConfirm.isOpen
  /\ wConfirm.onConfirm = "null"

(***************************************************************************)
(* The page with every remote call resolving.                              *)
(***************************************************************************)
\* Some call in flight resolves or fails.
Settle ==
  \/ ProcessResolved \/ ProcessNoUrl \/ ProcessRejected
  \/ ListResolved \/ ListRejected
  \/ CreateResolved \/ CreateRejected
  \/ UpdateResolved \/ UpdateRejected
  \/ DeleteResolved \/ DeleteRejected

SpecLive == Spec /\ WF_vars(Settle)

WaitStates == {"processing", "saving", "updating", "deleting"}

\* A user who heads back to idle: leaves the error and confirmation screens
\* by their Return / Cancel buttons and, when the workflow is in confirming
\* with no such screen shown, dismisses what is open and uploads a new file.
Recover ==
  \/ Settle
  \/ HandleCancelUpload
  \/ HandleCancelAction
  \/ /\ w.uploadState = "confirming"
     /\ \/ HandleAddClick
        \/ HandleApplyUpload
        \/ HandleBackClick
        \/ HandleCancel
        \/ DetailConfirmDiscard
        \/ DetailConfirmError
        \/ detail.confirm = "save-changes" /\ DetailConfirmClose
        \/ PageConfirmClose

\* The budget of calls or files of the run is used up.
Spent == calls = MaxCalls \/ nextFile > MaxFiles

\* C21: with every issued call resolving, every wait-bearing state
\* (processing, saving, updating, deleting) is eventually left; and from
\* every reachable state some sequence of user actions leads back to idle:
\* a user who from some point on only heads back to idle gets there (short
\* of the state confirming without an image once the budget of the run is
\* used up, where no further upload can be started).
C21_NoStuckState ==
  /\ (w.uploadState \in WaitStates) ~> (w.uploadState \notin WaitStates)
  /\ (<>[][Recover]_vars /\ WF_vars(Recover)) =>
       ((w.uploadState # "idle") ~>
          \/ w.uploadState = "idle"
          \/ w.uploadState = "confirming" /\ w.processedImageUrl = 0 /\ Spent)

C21_Witness ==
  /\ lastEvent = "handleCancelUpload"
  /\ w.uploadState = "idle"
  /\ \E f \in 1..MaxFiles : procCalls[f] = 3

\* The processing call a step settles (at most one is ever in flight).
SettledProcess == tasks[CHOOSE i \in InFlight("process") : TRUE]

\* The call a step has put in flight, if it is of the given kind.
Issued(op) ==
  /\ Len(tasks') > Len(tasks)
  /\ tasks'[Len(tasks')].op = op
  /\ SubSeq(tasks', 1, Len(tasks)) = tasks

\* While a processing call is outstanding the workflow is in processing and
\* the page shows the loading overlay only: no session is cancelled or
\* replaced before its response arrives.
OutstandingMeansProcessing ==
  /\ Cardinality(InFlight("process")) <= 1
  /\ InFlight("process") # {} =>
       /\ w.uploadState = "processing"
       /\ View(store, w) = "loading"

\* C23: when a processing call fails the workflow moves to error, an error
\* notification is shown, retryCount is unchanged and the file whose
\* processing failed is the session's stored source file.
C23_FailureKeepsFile ==
  [][lastEvent' = "processRejected" =>
       /\ w'.uploadState = "error"
       /\ w'.toast = [isVisible |-> TRUE, type |-> "error"]
       /\ w'.retryCount = w.retryCount
       /\ w'.uploadedFile = SettledProcess.file]_vars

\* C24: whenever the workflow state is confirming a processed image
\* reference is stored; a response without an image URL never puts the
\* workflow in confirming.
C24_ConfirmingHasImage ==
  w.uploadState = "confirming" => w.processedImageUrl # 0

\* C25: confirming the processed image while an item is edited returns to
\* idle in edit mode, with the image and its file in the edit state and no
\* update call issued; an update carrying an image is issued by saving the
\* edit form only.
C25_EditConfirmMerges ==
  [][/\ (lastEvent' = "handleConfirmAction" /\ isEditMode(w)) =>
          /\ w'.uploadState = "idle"
          /\ w'.isEditingItem
          /\ w'.selectedItem.image = w.processedImageUrl
          /\ detail'.mounted
          /\ detail'.isEditing
          /\ detail'.editState.image = w.uploadedFile
          /\ w.uploadedFile # 0
          /\ tasks' = tasks
     /\ (Issued("update") /\ tasks'[Len(tasks')].file # 0) =>
          /\ lastEvent' = "detailConfirmSave"
          /\ tasks'[Len(tasks')].file = detail.editState.image]_vars

C25_Witness ==
  /\ lastEvent = "handleConfirmAction"
  /\ isEditMode(w)
  /\ w.uploadState = "idle"
  /\ detail.mounted
  /\ detail.isEditing
  /\ detail.editState.image # 0
  /\ InFlight("update") = {}

\* C26: confirming the processed image of a new upload returns to idle and
\* opens the details step without a create call; a create call is issued by
\* submitting the details step (save or skip) only, with the session's file.
C26_NewConfirmOpensDetails ==
  [][/\ (lastEvent' = "handleConfirmAction" /\ ~isEditMode(w)) =>
          /\ w'.uploadState = "idle"
          /\ store'.openModal = "details"
          /\ tasks' = tasks
     /\ Issued("create") =>
          /\ lastEvent' \in {"handleSaveDetails", "handleSkipDetails"}
          /\ w.uploadedFile # 0
          /\ tasks'[Len(tasks')].file = w.uploadedFile]_vars

C26_Witness ==
  /\ lastEvent = "handleConfirmAction"
  /\ ~isEditMode(w)
  /\ w.uploadState = "idle"
  /\ w.uploadedFile # 0
  /\ store.openModal = "details"
  /\ InFlight("create") = {}

\* The list call awaited after a create of the details step.
CreateFetchSettles ==
  /\ lastEvent' \in {"listResolved", "listRejected"}
  /\ \E i \in InFlight("list") : tasks[i].cont = "createFetch" /\ tasks' = RemoveAt(tasks, i)

\* C27: once the create call of a new-item submission has resolved and its
\* handler has finished, by success or by failure, the workflow is idle and
\* no source file and no processed image are stored; on success the new item
\* is in the cache.
C27_CreateDiscardsSession ==
  [][/\ (lastEvent' = "createRejected" /\ \A i \in InFlight("create") : tasks[i].cont = "saveDetails") =>
          /\ w'.uploadState = "idle"
          /\ w'.uploadedFile = 0
          /\ w'.processedImageUrl = 0
     /\ CreateFetchSettles =>
          /\ w'.uploadState = "idle"
          /\ w'.uploadedFile = 0
          /\ w'.processedImageUrl = 0
          /\ HasItem(store'.items, store'.currentItemId)]_vars

\* C28: Upload Different at the confirmation step discards the session in
\* both modes; for a new upload it reopens the file-selection dialog, for an
\* edit it opens no upload dialog and leaves the item selected and in edit
\* mode.
C28_UploadDifferentByMode ==
  [][lastEvent' = "handleUploadDifferentAction" =>
       /\ w'.uploadState = "idle"
       /\ w'.uploadedFile = 0
       /\ w'.processedImageUrl = 0
       /\ w'.retryCount = 0
       /\ IF isEditMode(w)
          THEN /\ store'.openModal # "upload"
               /\ w'.selectedItem = w.selectedItem
               /\ w'.isEditingItem
               /\ detail'.mounted
               /\ detail'.isEditing
          ELSE store'.openModal = "upload"]_vars

C28_Witness ==
  /\ lastEvent = "handleUploadDifferentAction"
  /\ isEditMode(w)
  /\ detail.isEditing
  /\ store.openModal = "null"

\* The mutating calls (create, update, delete) in flight.
MutationsInFlight == InFlight("create") \cup InFlight("update") \cup InFlight("delete")

\* C29: at every moment at most one mutating remote call is in flight; in
\* particular no create call is issued while a delete started by dismissing
\* the details dialog is outstanding.
C29_OneMutationInFlight == Cardinality(MutationsInFlight) <= 1

\* C30: whenever a remote call (process, list, create, update or delete) is
\* in flight the busy indicator is shown: the store's loading flag is true
\* or the workflow state is processing, saving, updating or deleting.
C30_BusyWhileInFlight == tasks # << >> => isLoading(store, w)

(***************************************************************************)
(* The detail view against the cache.                                      *)
(***************************************************************************)
\* C31: whenever an item is selected and edit mode is not active (neither the
\* page's isEditingItem nor the detail view's isEditing), the name, weather
\* and image the detail view displays are those of the cached item with the
\* same id.  In view mode the detail view renders item.name and item.weather,
\* and its previewImage equals item.image (effect of lines 26-32 and
\* resetEditState).
C31_DisplayMatchesCache ==
  (/\ detail.mounted
   /\ ~detail.isEditing
   /\ ~w.isEditingItem
   /\ HasItem(store.items, w.selectedItem.id))
    => /\ itemProp.name = CachedItem.name
       /\ itemProp.weather = CachedItem.weather
       /\ itemProp.image = CachedItem.image

(***************************************************************************)
(* Delete calls and the delete confirmation.                               *)
(***************************************************************************)
\* The delete calls in flight for one item.
DeletesInFlight(tk, id) ==
  Cardinality({i \in DOMAIN tk : tk[i].op = "delete" /\ tk[i].id = id})

\* C32: a delete call for an item is issued only by accepting the delete
\* confirmation opened for that item; no other step, the dismissal of the
\* details dialog included, starts a delete call.
C32_DeleteOnlyConfirmed ==
  [][\A i \in DOMAIN tasks' :
       (/\ tasks'[i].op = "delete"
        /\ DeletesInFlight(tasks', tasks'[i].id) > DeletesInFlight(tasks, tasks'[i].id))
         => /\ wConfirm.isOpen
            /\ wConfirm.type = "delete"
            /\ wConfirm.data = tasks'[i].id
            /\ lastEvent' = "pageConfirmDelete"]_vars

(***************************************************************************)
(* fetchItems on a populated cache.                                        *)
(***************************************************************************)
\* C33: fetchItems invoked while the cache holds items returns at once: it
\* issues no list call and leaves items, loading and error as they were.
C33_PopulatedFetchIsNoOp ==
  [][(lastEvent' = "fetchItems" /\ Len(store.items) > 0)
       => /\ tasks' = tasks
          /\ store'.items = store.items
          /\ store'.loading = store.loading
          /\ store'.error = store.error]_vars

(***************************************************************************)
(* One pending confirmation.                                               *)
(***************************************************************************)
\* C34: the confirmation slot holds one pending confirmation.  Opening a
\* confirmation, also while another is pending, leaves the slot holding the
\* kind, data and callback just passed; a confirm invokes at most one
\* callback, and only the one passed by the newest opening, so a callback
\* that was replaced is not invoked (unless the newest opening passed the same
\* callback again).
C34_NewestReplaces ==
  [][/\ lastEvent' = "openConfirmModal" =>
          wConfirm' = [isOpen |-> TRUE, type |-> fnIn'.type, data |-> fnIn'.data,
                       onConfirm |-> fnIn'.onConfirm]
     /\ lastEvent' = "confirmModalConfirm" =>
          /\ Len(fnOut'.invoked) <= 1
          /\ \A k \in DOMAIN fnOut'.invoked :
               /\ fnOut'.invoked[k] = fnIn.onConfirm
               /\ fnIn.replaced # fnIn.onConfirm => fnOut'.invoked[k] # fnIn.replaced]_vars

C34_Witness ==
  /\ lastEvent = "confirmModalConfirm"
  /\ fnIn.fn = "openConfirmModal"
  /\ fnIn.replaced = "confirmDelete"
  /\ fnIn.type = "unsaved-changes"
  /\ fnIn.onConfirm = "discardEdit"
  /\ fnOut.invoked = <<"discardEdit">>
  /\ ~wConfirm.isOpen

(***************************************************************************)
(* validateImageFile on its own, over MIME types, file names and sizes     *)
(* around the 10 MB limit.                                                 *)
(***************************************************************************)
TenMb == 10 * 1024 * 1024

FnMimeTypes ==
  {"image/jpeg", "image/jpg", "image/png", "image/heic", "image/heif",
   "image/gif", "application/pdf", ""}

FnFileNames ==
  {<<"a", ".", "j", "p", "g">>, <<"a", ".", "J", "P", "G">>,
   <<"a", ".", "j", "p", "e", "g">>, <<"a", ".", "p", "n", "g">>,
   <<"a", ".", "H", "e", "i", "c">>, <<"a", ".", "h", "e", "i", "f">>,
   <<"a", ".", "g", "i", "f">>, <<"a", ".", "p", "d", "f">>,
   <<"a", ".", "j", "p", "g", ".", "p", "d", "f">>,
   <<"a", "j", "p", "g">>, <<".", "p", "n", "g">>, <<"a">>}

FnFileSizes == {0, 1, TenMb - 1, TenMb, TenMb + 1, 12 * 1024 * 1024}

FnFiles ==
  {NoFile} \cup {File(type, name, size) :
                   type \in FnMimeTypes, name \in FnFileNames, size \in FnFileSizes}

InitValidate ==
  /\ store = InitStore
  /\ w = InitWardrobe
  /\ detail = Unmounted
  /\ wConfirm = ClosedConfirm
  /\ tasks = << >>
  /\ db = [items |-> << >>, nextId |-> 1]
  /\ nextFile = 1
  /\ procCalls = [f \in 1..MaxFiles |-> 0]
  /\ calls = 0
  /\ lastEvent = "none"
  /\ fnIn \in {FileChecked(file) : file \in FnFiles}
  /\ fnOut = NoFn
  /\ dz = DropzoneUnmounted
  /\ objectUrls = NoObjectUrls
  /\ registry = InitRegistry
  /\ auth = AuthCreated(0)

ApplyValidateImageFile ==
  /\ fnIn.fn = "validateImageFile"
  /\ fnOut = NoFn
  /\ fnOut' = validateImageFile(fnIn.file)
  /\ UNCHANGED <<store, w, detail, wConfirm, tasks, db, nextFile, procCalls, calls,
                 lastEvent, fnIn, dz, objectUrls, registry, auth>>

SpecValidate == InitValidate /\ [][ApplyValidateImageFile]_vars

\* The claim's accepted types: JPEG (under either of its MIME names), PNG,
\* HEIC, HEIF by MIME type, or a name that ends, whatever the letter case,
\* with one of the five extensions.
JpegPngHeic == {"image/jpeg", "image/jpg", "image/png", "image/heic", "image/heif"}

HasImageExtension(name) ==
  \E ext \in {<<".", "j", "p", "g">>, <<".", "j", "p", "e", "g">>,
              <<".", "p", "n", "g">>, <<".", "h", "e", "i", "c">>,
              <<".", "h", "e", "i", "f">>} :
    /\ Len(name) >= Len(ext)
    /\ \A k \in 1..Len(ext) :
         LET c == name[Len(name) - Len(ext) + k]
         IN  \/ c = ext[k]
             \/ \E i \in DOMAIN LowerCaseLetters :
                  LowerCaseLetters[i] = ext[k] /\ UpperCaseLetters[i] = c

\* C35: validateImageFile gives no-file for a missing file; file-invalid-type
\* for a file whose MIME type and name are both not accepted, whatever its
\* size; and for a file of an accepted type file-too-large exactly when its
\* size exceeds 10 * 1024 * 1024 bytes, and a valid result otherwise.
C35_ValidateImageFile ==
  fnOut.fn = "validateImageFile" =>
    LET file == fnIn.file
        accepted == file.type \in JpegPngHeic \/ HasImageExtension(file.name)
    IN  /\ ~file.present => fnOut = [fn |-> "validateImageFile", isValid |-> FALSE,
                                     code |-> "no-file"]
        /\ (file.present /\ ~accepted) =>
             fnOut = [fn |-> "validateImageFile", isValid |-> FALSE,
                      code |-> "file-invalid-type"]
        /\ (file.present /\ accepted) =>
             /\ fnOut.code = "file-too-large" <=> file.size > 10485760
             /\ fnOut.isValid <=> file.size <= 10485760
             /\ fnOut.isValid => fnOut.code = "null"

\* A file of exactly 10 MB, known by its upper-case extension only, is accepted.
C35_Witness ==
  /\ fnOut.fn = "validateImageFile"
  /\ fnIn.file = [present |-> TRUE, type |-> "", name |-> <<"a", ".", "J", "P", "G">>,
                  size |-> 10485760]
  /\ fnOut.isValid

(***************************************************************************)
(* The page with item names that fail validateItemName.  Spec types valid  *)
(* and blank names only; here the user also types a one-letter name, a     *)
(* name with a character outside the pattern and a name of 51 characters,  *)
(* in the edit form and in the details form.  Three remote calls may be    *)
(* started.                                                                *)
(***************************************************************************)
LongName == [k \in 1..51 |-> "x"]
InvalidNames == {<<"C">>, <<"C", "!">>, LongName}

InitNames ==
  /\ store = storeBegin(InitStore)
  /\ w = InitWardrobe
  /\ detail = Unmounted
  /\ wConfirm = ClosedConfirm
  /\ tasks = <<Task("list", "init", 0, 0, Empty, Empty)>>
  /\ db \in {[items |-> c, nextId |-> Len(c) + 1] : c \in InitialCatalogs}
  /\ nextFile = 1
  /\ procCalls = [f \in 1..MaxFiles |-> 0]
  /\ calls = MaxCalls - 3
  /\ lastEvent = "mount"
  /\ fnIn = NoFn
  /\ fnOut = NoFn
  /\ dz = DropzoneUnmounted
  /\ objectUrls = NoObjectUrls
  /\ registry = InitRegistry
  /\ auth = AuthCreated(0)

\* TextInput onChange (245-248) with a name that fails validation
TypeInvalidName ==
  /\ DetailClickable
  /\ detail.isEditing
  /\ \E name \in InvalidNames :
       Step("typeName", store, w,
            [detail EXCEPT !.editState.name = name, !.nameError = FALSE],
            wConfirm, tasks)
  /\ UNCHANGED <<db, nextFile, procCalls, calls>>

\* OptionalDetailsForm.handleSave, lines 19-25: setError and return.  fnIn
\* keeps the name the form held, fnOut the outcome of its validation.
HandleSaveDetailsInvalid ==
  /\ store.openModal = "details"
  /\ \E name \in InvalidNames :
       /\ Trim(name) # Empty
       /\ ~validateItemName(name)
       /\ StepChecking("handleSaveDetailsInvalid", store, w, detail, wConfirm, tasks,
                       [fn |-> "validateItemName", name |-> name],
                       [fn |-> "validateItemName", isValid |-> FALSE])
  /\ UNCHANGED <<db, nextFile, procCalls, calls>>

NextNames == Next \/ TypeInvalidName \/ HandleSaveDetailsInvalid

SpecNames == InitNames /\ [][NextNames]_vars

\* The claim's rule: a name that was entered (not blank) and whose trimmed
\* length is below 2 or above 50, or that holds a character outside letters,
\* digits, spaces and - ' , . ( ).
NameCharacters ==
  {UpperCaseLetters[i] : i \in DOMAIN UpperCaseLetters}
    \cup {LowerCaseLetters[i] : i \in DOMAIN LowerCaseLetters}
    \cup {"0", "1", "2", "3", "4", "5", "6", "7", "8", "9"}
    \cup {" ", "-", "'", ",", ".", "(", ")"}

FailsNameRule(name) ==
  /\ Trim(name) # Empty
  /\ \/ Len(Trim(name)) < 2
     \/ Len(Trim(name)) > 50
     \/ \E k \in DOMAIN name : name[k] \notin NameCharacters

\* C36: pressing Save with a name that fails the rule, in the edit form or in
\* the details form, starts no remote call, opens no confirmation dialog and
\* leaves the page state, the store and the edit state as they were, the
\* inline error apart.
C36_InvalidNameRejected ==
  [][/\ (/\ lastEvent' = "handleSave"
         /\ detail.isEditing
         /\ FailsNameRule(detail.editState.name))
          => /\ tasks' = tasks
             /\ w' = w
             /\ store' = store
             /\ wConfirm' = wConfirm
             /\ detail' = [detail EXCEPT !.nameError = TRUE]
     /\ (fnIn'.fn = "validateItemName" /\ FailsNameRule(fnIn'.name))
          => /\ tasks' = tasks
             /\ w' = w
             /\ store' = store
             /\ wConfirm' = wConfirm
             /\ detail' = detail
             /\ ~fnOut'.isValid]_vars

(***************************************************************************)
(* utils.createImagePreview and utils.revokeImagePreview on their own.     *)
(* A handle is a JavaScript value: undefined, null, a string, or an object *)
(* (a File passed in place of its preview URL).                            *)
(***************************************************************************)
Digits == <<"1", "2", "3", "4", "5", "6", "7", "8", "9">>
BlobPrefix == <<"b", "l", "o", "b", ":">>

\* The string URL.createObjectURL returns for object URL u
BlobUrl(u) == BlobPrefix \o <<Digits[u]>>

Str(value) == [kind |-> "string", value |-> value]

\* String.prototype.startsWith
startsWith(s, prefix) ==
  /\ Len(s) >= Len(prefix)
  /\ SubSeq(s, 1, Len(prefix)) = prefix

\* URL.revokeObjectURL: releases the object URL the string names; a string
\* that names none is ignored, and a second call on the same string is too
\* (the registry counts it).
revokeObjectURL(urls, s) ==
  [u \in 1..MaxUrls |->
     IF urls[u].created /\ s = BlobUrl(u)
     THEN [urls[u] EXCEPT !.revoked = @ + 1]
     ELSE urls[u]]

\* Variant for C37: the revoke without the `url &&` test.
revokeImagePreviewUnguarded(urls, url) ==
  IF url.kind # "string" THEN [urls |-> urls, threw |-> TRUE]
  ELSE IF startsWith(url.value, BlobPrefix)
       THEN [urls |-> revokeObjectURL(urls, url.value), threw |-> FALSE]
  ELSE [urls |-> urls, threw |-> FALSE]

\* revokeImagePreview (163-167): the registry after the call, and whether the
\* call threw.  `url && ...` stops at undefined, null and the empty string;
\* url.startsWith is a TypeError on a truthy value that is not a string.
revokeImagePreview(urls, url) ==
  IF url.kind \in {"undefined", "null"} THEN [urls |-> urls, threw |-> FALSE]
  ELSE IF url.kind = "string" /\ url.value = Empty THEN [urls |-> urls, threw |-> FALSE]
  ELSE IF url.kind # "string" THEN [urls |-> urls, threw |-> TRUE]
  ELSE IF startsWith(url.value, BlobPrefix)
       THEN [urls |-> revokeObjectURL(urls, url.value), threw |-> FALSE]
  ELSE [urls |-> urls, threw |-> FALSE]

Handles ==
  {[kind |-> "undefined"], [kind |-> "null"], [kind |-> "object"],
   Str(Empty),
   Str(<<"h", "t", "t", "p", "s", ":", "/", "/", "a", "/", "1">>),
   Str(<<"d", "a", "t", "a", ":", "1">>),
   Str(<<"b", "l", "o", "b">>)}
    \cup {Str(BlobUrl(u)) : u \in 1..MaxUrls}

InitRevoke ==
  /\ store = InitStore
  /\ w = InitWardrobe
  /\ detail = Unmounted
  /\ wConfirm = ClosedConfirm
  /\ tasks = << >>
  /\ db = [items |-> << >>, nextId |-> 1]
  /\ nextFile = 1
  /\ procCalls = [f \in 1..MaxFiles |-> 0]
  /\ calls = 0
  /\ lastEvent = "none"
  /\ fnIn = NoFn
  /\ fnOut = NoFn
  /\ dz = DropzoneUnmounted
  /\ objectUrls = NoObjectUrls
  /\ registry = InitRegistry
  /\ auth = AuthCreated(0)

\* createImagePreview(file) (155-157)
CreateImagePreview ==
  /\ \E u \in 1..MaxUrls : ~objectUrls[u].created
  /\ objectUrls' = createObjectURL(objectUrls, FreshUrl(objectUrls))
  /\ lastEvent' = "createImagePreview"
  /\ fnIn' = [fn |-> "createImagePreview"]
  /\ fnOut' = [fn |-> "createImagePreview", url |-> Str(BlobUrl(FreshUrl(objectUrls)))]
  /\ UNCHANGED <<store, w, detail, wConfirm, tasks, db, nextFile, procCalls, calls, dz,
                 registry, auth>>

\* revokeImagePreview(url), called at most MaxCalls times in a run
CallRevokeImagePreview ==
  /\ calls < MaxCalls
  /\ \E url \in Handles :
       /\ objectUrls' = revokeImagePreview(objectUrls, url).urls
       /\ fnIn' = [fn |-> "revokeImagePreview", url |-> url]
       /\ fnOut' = [fn |-> "revokeImagePreview",
                    threw |-> revokeImagePreview(objectUrls, url).threw]
  /\ calls' = calls + 1
  /\ lastEvent' = "revokeImagePreview"
  /\ UNCHANGED <<store, w, detail, wConfirm, tasks, db, nextFile, procCalls, dz,
                 registry, auth>>

NextRevoke == CreateImagePreview \/ CallRevokeImagePreview

SpecRevoke == InitRevoke /\ [][NextRevoke]_vars

\* The handle is the URL of an object URL that was created.
NamesObjectUrl(url) ==
  /\ url.kind = "string"
  /\ \E u \in 1..MaxUrls : objectUrls[u].created /\ url.value = BlobUrl(u)

\* C37: revokeImagePreview called with an absent handle (undefined, null), an
\* empty string or a string that is not the URL of a local object URL
\* releases nothing and raises no error; called on a handle that was revoked
\* before, it raises no error.
C37_RevokeIsSafe ==
  [][(lastEvent' = "revokeImagePreview"
        /\ fnIn'.url.kind \in {"undefined", "null", "string"})
       => /\ ~fnOut'.threw
          /\ ~NamesObjectUrl(fnIn'.url) => objectUrls' = objectUrls]_vars

\* The second revoke of the same object URL.
C37_Witness ==
  /\ lastEvent = "revokeImagePreview"
  /\ fnIn.url = [kind |-> "string", value |-> <<"b", "l", "o", "b", ":", "1">>]
  /\ objectUrls[1] = [created |-> TRUE, revoked |-> 2]
  /\ ~fnOut.threw

(***************************************************************************)
(* The normalization of change detection.                                  *)
(***************************************************************************)
\* hasChanges, lines 61-64: normalizeValue(v).trim()
normalizeThenTrim(value) == Trim(normalizeValue(value))

\* C38: the normalization hasChanges applies is idempotent on every name and
\* weather of the bounded set, and hasChanges gives the same answer on the
\* normalized item and edit state as on the raw ones.
C38_NormalizeIdempotent ==
  fnOut.fn = "hasChanges" =>
    /\ \A v \in {fnIn.item.name, fnIn.item.weather,
                 fnIn.editState.name, fnIn.editState.weather} :
         normalizeThenTrim(normalizeThenTrim(v)) = normalizeThenTrim(v)
    /\ fnOut.value =
         hasChanges(TRUE,
                    [name |-> normalizeThenTrim(fnIn.item.name),
                     weather |-> normalizeThenTrim(fnIn.item.weather)],
                    [name |-> normalizeThenTrim(fnIn.editState.name),
                     weather |-> normalizeThenTrim(fnIn.editState.weather),
                     image |-> fnIn.editState.image])

(***************************************************************************)
(* The generic registry of useModal on its own: openModal, closeModal,     *)
(* closeAllModals, and the timer each closeModal starts (300 ms), which    *)
(* fires at any later moment.                                              *)
(***************************************************************************)
\* The data passed to openModal: 0 is the default, null.
ModalDataValues == {0, 1, 2}

\* openModal (84-89): the data is stored only when it is truthy
openModal(reg, modalName, data) ==
  [reg EXCEPT !.modals[modalName] = "true",
              !.modalData[modalName] = IF data # 0 THEN data ELSE @]

\* closeModal (91-100) up to setTimeout
closeModal(reg, modalName) ==
  [reg EXCEPT !.modals[modalName] = "false",
              !.timers[modalName] = @ + 1]

\* the callback of setTimeout (93-99): delete newData[modalName]
removeModalData(reg, modalName) ==
  [reg EXCEPT !.modalData[modalName] = 0,
              !.timers[modalName] = @ - 1]

\* isModalOpen (102-104) and getModalData (106-108)
isModalOpen(reg, modalName) == reg.modals[modalName] = "true"
getModalData(reg, modalName) == reg.modalData[modalName]

\* closeAllModals (110-113)
closeAllModals(reg) ==
  [reg EXCEPT !.modals = [n \in ModalNames |-> "absent"],
              !.modalData = [n \in ModalNames |-> 0]]

InitRegistryAlone ==
  /\ store = InitStore
  /\ w = InitWardrobe
  /\ detail = Unmounted
  /\ wConfirm = ClosedConfirm
  /\ tasks = << >>
  /\ db = [items |-> << >>, nextId |-> 1]
  /\ nextFile = 1
  /\ procCalls = [f \in 1..MaxFiles |-> 0]
  /\ calls = 0
  /\ lastEvent = "none"
  /\ fnIn = NoFn
  /\ fnOut = NoFn
  /\ dz = DropzoneUnmounted
  /\ objectUrls = NoObjectUrls
  /\ registry = InitRegistry
  /\ auth = AuthCreated(0)

\* fnIn keeps the latest call of openModal, closeModal or closeAllModals;
\* a timer that fires leaves it as it was.
RegistryStep(ev, reg, in) ==
  /\ registry' = reg
  /\ lastEvent' = ev
  /\ fnIn' = in
  /\ UNCHANGED <<store, w, detail, wConfirm, tasks, db, nextFile, procCalls, fnOut,
                 dz, objectUrls, auth>>

OpenModal ==
  /\ \E modalName \in ModalNames, data \in ModalDataValues :
       RegistryStep("openModal", openModal(registry, modalName, data),
                    [fn |-> "openModal", modalName |-> modalName, data |-> data])
  /\ UNCHANGED calls

\* closeModal, called at most MaxCalls times in a run
CloseModal ==
  /\ calls < MaxCalls
  /\ calls' = calls + 1
  /\ \E modalName \in ModalNames :
       RegistryStep("closeModal", closeModal(registry, modalName),
                    [fn |-> "closeModal", modalName |-> modalName])

CloseAllModals ==
  /\ RegistryStep("closeAllModals", closeAllModals(registry), [fn |-> "closeAllModals"])
  /\ UNCHANGED calls

ModalDataTimeout ==
  /\ \E modalName \in ModalNames :
       /\ registry.timers[modalName] > 0
       /\ RegistryStep("modalDataTimeout", removeModalData(registry, modalName), fnIn)
  /\ UNCHANGED calls

NextRegistry == OpenModal \/ CloseModal \/ CloseAllModals \/ ModalDataTimeout

SpecRegistry == InitRegistryAlone /\ [][NextRegistry]_vars

\* C39: from openModal(name, data) with data until the next closeModal or
\* closeAllModals, getModalData(name) returns that data, whatever timers of
\* earlier closeModal calls fire meanwhile.  (fnIn is the latest of these
\* calls, so while it is the openModal no close has followed it.)
C39_DataKeptWhileOpen ==
  (fnIn.fn = "openModal" /\ fnIn.data # 0)
    => /\ isModalOpen(registry, fnIn.modalName)
       /\ getModalData(registry, fnIn.modalName) = fnIn.data

(***************************************************************************)
(* authStore on its own: init (called by App on mount), login, register,   *)
(* logout and clearError, called in any order and overlapping, each remote *)
(* call resolving or rejecting later.  A user is 0 (null) or its id; the   *)
(* token is 0 (none) or the token of a user.                               *)
(***************************************************************************)
AuthUsers == {1, 2}

\* A call of the auth service in flight
AuthTask(op) == Task(op, "authStore", 0, 0, Empty, Empty)

\* clearAuth (106-113)
clearAuth(a) ==
  [a EXCEPT !.token = 0, !.user = 0, !.isAuthenticated = FALSE, !.error = "null"]

\* init (17-39) up to its await; TRUE in .called when getCurrentUser is called
init(a) ==
  IF a.token = 0
  THEN [auth |-> [a EXCEPT !.isAuthenticated = FALSE, !.isLoading = FALSE],
        called |-> FALSE]
  ELSE [auth |-> [a EXCEPT !.isLoading = TRUE], called |-> TRUE]

\* init, lines 27-33: the response of getCurrentUser.  data is the user, 0
\* when the response has none.
initResolved(a, success, data) ==
  IF success /\ data # 0
  THEN [a EXCEPT !.user = data, !.isAuthenticated = TRUE, !.isLoading = FALSE]
  ELSE a

\* init, lines 34-38
initRejected(a) == [clearAuth(a) EXCEPT !.isLoading = FALSE]

\* login (44-67)
loginBegin(a) == [a EXCEPT !.isLoading = TRUE, !.error = "null"]
loginResolved(a, success, data) ==
  IF success /\ data # 0
  THEN [a EXCEPT !.token = data, !.user = data, !.isAuthenticated = TRUE,
                 !.isLoading = FALSE]
  ELSE [a EXCEPT !.error = "fail", !.isLoading = FALSE]
loginRejected(a) == [a EXCEPT !.error = "fail", !.isLoading = FALSE]

\* register (72-87)
registerResolved(a) == [a EXCEPT !.isLoading = FALSE]

\* logout (92-101)
logoutBegin(a) == [a EXCEPT !.isLoading = TRUE]
logoutSettled(a) == [clearAuth(a) EXCEPT !.isLoading = FALSE]

\* clearError (115)
clearError(a) == [a EXCEPT !.error = "null"]

\* ProtectedRoute (46-58): the page loader is shown
isInitializing(a) == a.isLoading /\ a.user = 0 /\ a.token # 0

InitAuthAlone ==
  /\ store = InitStore
  /\ w = InitWardrobe
  /\ detail = Unmounted
  /\ wConfirm = ClosedConfirm
  /\ tasks = << >>
  /\ db = [items |-> << >>, nextId |-> 1]
  /\ nextFile = 1
  /\ procCalls = [f \in 1..MaxFiles |-> 0]
  /\ calls = 0
  /\ lastEvent = "create"
  /\ fnIn = NoFn
  /\ fnOut = NoFn
  /\ dz = DropzoneUnmounted
  /\ objectUrls = NoObjectUrls
  /\ registry = InitRegistry
  /\ auth \in {AuthCreated(token) : token \in {0} \cup AuthUsers}

AuthStep(ev, a, tk) ==
  /\ auth' = a
  /\ tasks' = tk
  /\ lastEvent' = ev
  /\ UNCHANGED <<store, w, detail, wConfirm, db, nextFile, procCalls, fnIn, fnOut,
                 dz, objectUrls, registry>>

\* An operation that starts a remote call, within the bounds of the run
AuthCall(ev, a, op) ==
  /\ Len(tasks) < MaxInFlight
  /\ Started(1)
  /\ AuthStep(ev, a, Append(tasks, AuthTask(op)))

\* init()
CallInit ==
  IF init(auth).called
  THEN AuthCall("init", init(auth).auth, "me")
  ELSE AuthStep("initNoToken", init(auth).auth, tasks) /\ UNCHANGED calls

CallLogin == AuthCall("login", loginBegin(auth), "login")
\* register (72-87): its first statement and its catch block are login's
CallRegister == AuthCall("register", loginBegin(auth), "register")
CallLogout == AuthCall("logout", logoutBegin(auth), "logout")

CallClearError ==
  /\ auth.error # "null"
  /\ AuthStep("clearError", clearError(auth), tasks)
  /\ UNCHANGED calls

\* getCurrentUser resolves: with the user of the token, with success false,
\* or with success and no data
CurrentUserResolved ==
  /\ \E i \in InFlight("me"), success \in BOOLEAN, data \in {0} \cup AuthUsers :
       AuthStep("currentUserResolved", initResolved(auth, success, data),
                RemoveAt(tasks, i))
  /\ UNCHANGED calls

CurrentUserRejected ==
  /\ \E i \in InFlight("me") :
       AuthStep("currentUserRejected", initRejected(auth), RemoveAt(tasks, i))
  /\ UNCHANGED calls

LoginResolved ==
  /\ \E i \in InFlight("login"), success \in BOOLEAN, data \in {0} \cup AuthUsers :
       AuthStep("loginResolved", loginResolved(auth, success, data), RemoveAt(tasks, i))
  /\ UNCHANGED calls

LoginRejected ==
  /\ \E i \in InFlight("login") :
       AuthStep("loginRejected", loginRejected(auth), RemoveAt(tasks, i))
  /\ UNCHANGED calls

RegisterResolved ==
  /\ \E i \in InFlight("register") :
       AuthStep("registerResolved", registerResolved(auth), RemoveAt(tasks, i))
  /\ UNCHANGED calls

RegisterRejected ==
  /\ \E i \in InFlight("register") :
       AuthStep("registerRejected", loginRejected(auth), RemoveAt(tasks, i))
  /\ UNCHANGED calls

\* logout: the finally block runs whether the call resolved or rejected
LogoutSettled ==
  /\ \E i \in InFlight("logout") :
       AuthStep("logoutSettled", logoutSettled(auth), RemoveAt(tasks, i))
  /\ UNCHANGED calls

NextAuth ==
  \/ CallInit \/ CallLogin \/ CallRegister \/ CallLogout \/ CallClearError
  \/ CurrentUserResolved \/ CurrentUserRejected
  \/ LoginResolved \/ LoginRejected
  \/ RegisterResolved \/ RegisterRejected
  \/ LogoutSettled

SpecAuth == InitAuthAlone /\ [][NextAuth]_vars

\* C40: when init() ends (no token, or the current-user call resolved with
\* any response, or rejected), isLoading is false, and the protected route
\* does not show the page loader.
C40_InitClearsLoading ==
  [][lastEvent' \in {"initNoToken", "currentUserResolved", "currentUserRejected"}
       => /\ ~auth'.isLoading
          /\ ~isInitializing(auth')]_vars

=============================================================================
